---------------------------- MODULE Spec2Model ----------------------------
(***************************************************************************)
(* A model of playlist.c (RetroArch): the playlist as an ordered,          *)
(* capacity-bounded sequence of entries, its push / update / delete        *)
(* operations, path equality, and the two on-disk formats.                 *)
(*                                                                         *)
(* C strings are sequences of characters.  A character is a short TLA+     *)
(* string ("/", "a", ".zip", ...): a path component, a delimiter or a      *)
(* file extension counts as one character.  A char* is a record            *)
(* [ptr, str]: ptr = FALSE is the NULL pointer.                            *)
(***************************************************************************)
EXTENDS Integers, Sequences, FiniteSets, TLC

VARIABLES
    pl,      \* the playlist (struct content_playlist)
    disk,    \* the file at config.path
    last,    \* the last operation: its name, arguments, result, the playlist before it
    WIN32,   \* the build: TRUE when _WIN32 is defined (case-insensitive file system)
    pe,      \* inputs and result of a direct call of playlist_path_equal
    playlist_cached,  \* the process-wide cached slot: 0 (NULL) or a playlist of the heap
    heap,    \* the playlist objects allocated so far, in order of allocation
    pCtx     \* the JSONContext of the parse in progress (the parser's user data)

vars == <<pl, disk, last, WIN32, pe, playlist_cached, heap, pCtx>>

----------------------------------------------------------------------------
(* Bounds of the model *)

\* the largest config.capacity a playlist is created with
MaxCapacity == 2

\* the largest number of entries of a playlist that is written and read back
MaxItems == 2

----------------------------------------------------------------------------
(* C strings *)

NULL == [ptr |-> FALSE, str |-> <<>>]

\* strdup(s), or a char buffer holding s
Str(s) == [ptr |-> TRUE, str |-> s]

string_is_empty(p) == ~p.ptr \/ p.str = <<>>

ToLower(c) ==
    CASE c = "A" -> "a"
      [] c = ".ZIP" -> ".zip"
      [] OTHER -> c

LowerSeq(s) == [i \in 1..Len(s) |-> ToLower(s[i])]

string_is_equal(a, b) == a.ptr /\ b.ptr /\ a.str = b.str

string_is_equal_noncase(a, b) == a.ptr /\ b.ptr /\ LowerSeq(a.str) = LowerSeq(b.str)

\* "a ? a : \"\"" as the writers print a field
OrEmpty(p) == IF p.ptr THEN p.str ELSE <<>>

\* struct string_list *: ptr = FALSE is NULL, elems the elements' data
NULL_LIST == [ptr |-> FALSE, elems |-> <<>>]

StrList(es) == [ptr |-> TRUE, elems |-> es]

----------------------------------------------------------------------------
(* Paths: the collaborators of file_path.c and core_info.c *)

FILE_PATH_DETECT == <<"DETECT">>

FILE_PATH_BUILTIN == <<"builtin">>

ArchiveExt == {".zip", ".ZIP"}

FileExt == ArchiveExt \cup {".bin", ".rom", ".so", ".dll"}

\* path_resolve_realpath: a leading "." (a path relative to the working
\* directory, which is the root here) is resolved; any other path is returned
\* unchanged
path_resolve_realpath(s) ==
    IF Len(s) > 0 /\ s[1] = "." THEN Tail(s) ELSE s

\* path_get_archive_delim: the index of the first '#' that follows an archive
\* extension, 0 when there is none
path_get_archive_delim(s) ==
    LET hits == {i \in 2..Len(s) : s[i] = "#" /\ s[i-1] \in ArchiveExt}
    IN IF hits = {} THEN 0 ELSE CHOOSE i \in hits : \A j \in hits : i <= j

\* path_is_compressed_file: the extension of the path is an archive extension
path_is_compressed_file(s) == Len(s) > 0 /\ s[Len(s)] \in ArchiveExt

LastSlash(s) ==
    LET hits == {i \in 1..Len(s) : s[i] = "/"}
    IN IF hits = {} THEN 0 ELSE CHOOSE i \in hits : \A j \in hits : i >= j

\* path_basename: what follows the archive delimiter, else the last slash
path_basename(s) ==
    LET d == path_get_archive_delim(s)
    IN IF d > 0 THEN SubSeq(s, d + 1, Len(s))
       ELSE SubSeq(s, LastSlash(s) + 1, Len(s))

\* fill_pathname_base_noext: the basename without its extension
fill_pathname_base_noext(s) ==
    LET b == path_basename(s)
    IN IF Len(b) > 0 /\ b[Len(b)] \in FileExt THEN SubSeq(b, 1, Len(b) - 1) ELSE b

\* core_info_core_file_id_is_equal: two core paths name the same core when
\* their file names without extension agree
core_info_core_file_id_is_equal(a, b) ==
    /\ ~string_is_empty(a) /\ ~string_is_empty(b)
    /\ fill_pathname_base_noext(a.str) = fill_pathname_base_noext(b.str)

----------------------------------------------------------------------------
(* Path and core path equality *)

PathCompare(a, b) ==
    IF WIN32 THEN string_is_equal_noncase(a, b) ELSE string_is_equal(a, b)

\* the test of fuzzy_archive_match left out
playlist_path_equal_AlwaysFuzzy(real_path, entry_path, config) ==
    IF string_is_empty(real_path) \/ string_is_empty(entry_path) THEN FALSE
    ELSE
    LET entry_real_path == Str(path_resolve_realpath(entry_path.str))
    IN
    IF string_is_empty(entry_real_path) THEN FALSE
    ELSE IF PathCompare(real_path, entry_real_path) THEN TRUE
    ELSE
    LET real_path_is_compressed == path_is_compressed_file(real_path.str)
        entry_real_path_is_compressed == path_is_compressed_file(entry_real_path.str)
    IN
    IF real_path_is_compressed # entry_real_path_is_compressed
    THEN LET compressed_path_a == IF real_path_is_compressed THEN real_path ELSE entry_real_path
             full_path == IF real_path_is_compressed THEN entry_real_path ELSE real_path
             delim == path_get_archive_delim(full_path.str)
         IN IF delim # 0
            THEN PathCompare(compressed_path_a, Str(SubSeq(full_path.str, 1, delim - 1)))
            ELSE FALSE
    ELSE FALSE

playlist_path_equal(real_path, entry_path, config) ==
    IF string_is_empty(real_path) \/ string_is_empty(entry_path) THEN FALSE
    ELSE
    LET entry_real_path == Str(path_resolve_realpath(entry_path.str))
    IN
    IF string_is_empty(entry_real_path) THEN FALSE
    ELSE IF PathCompare(real_path, entry_real_path) THEN TRUE
    ELSE IF ~config.fuzzy_archive_match THEN FALSE
    ELSE
    LET real_path_is_compressed == path_is_compressed_file(real_path.str)
        entry_real_path_is_compressed == path_is_compressed_file(entry_real_path.str)
    IN
    IF real_path_is_compressed # entry_real_path_is_compressed
    THEN LET compressed_path_a == IF real_path_is_compressed THEN real_path ELSE entry_real_path
             full_path == IF real_path_is_compressed THEN entry_real_path ELSE real_path
             delim == path_get_archive_delim(full_path.str)
         IN IF delim # 0
            THEN \* strlcpy(.., full_path, len) with len = 1 + delim - full_path
                 \* copies the len - 1 characters before the delimiter
                 PathCompare(compressed_path_a, Str(SubSeq(full_path.str, 1, delim - 1)))
            ELSE FALSE
    ELSE FALSE

playlist_core_path_equal(real_core_path, entry_core_path, config) ==
    IF string_is_empty(real_core_path) \/ string_is_empty(entry_core_path) THEN FALSE
    ELSE
    LET entry_real_core_path ==
            IF entry_core_path.str # FILE_PATH_DETECT /\ entry_core_path.str # FILE_PATH_BUILTIN
            THEN Str(path_resolve_realpath(entry_core_path.str))
            ELSE Str(entry_core_path.str)
    IN
    IF string_is_empty(entry_real_core_path) THEN FALSE
    ELSE IF PathCompare(real_core_path, entry_real_core_path) THEN TRUE
    ELSE config.autofix_paths
         /\ core_info_core_file_id_is_equal(real_core_path, entry_core_path)

----------------------------------------------------------------------------
(* Entries and the playlist *)

PLAYLIST_RUNTIME_UNKNOWN == 0

\* an entry after memset(entry, 0, sizeof(*entry))
ZeroEntry ==
    [path |-> NULL, label |-> NULL, core_path |-> NULL, core_name |-> NULL,
     db_name |-> NULL, crc32 |-> NULL, subsystem_ident |-> NULL,
     subsystem_name |-> NULL, subsystem_roms |-> NULL_LIST,
     runtime_status |-> PLAYLIST_RUNTIME_UNKNOWN,
     runtime_hours |-> 0, runtime_minutes |-> 0, runtime_seconds |-> 0,
     last_played_year |-> 0, last_played_month |-> 0, last_played_day |-> 0,
     last_played_hour |-> 0, last_played_minute |-> 0, last_played_second |-> 0,
     runtime_str |-> NULL, last_played_str |-> NULL]

\* what an entry slot of freshly allocated, never written memory may hold in
\* its pointer fields: zero bytes, or junk
JunkEntry ==
    LET junk == Str(<<"?">>)
    IN [ZeroEntry EXCEPT !.label = junk, !.core_name = junk, !.db_name = junk,
                         !.crc32 = junk, !.subsystem_ident = junk,
                         !.subsystem_name = junk,
                         !.subsystem_roms = StrList(<<<<"?">>>>)]

UninitImages == {ZeroEntry, JunkEntry}

\* playlist_free_entry leaves every field NULL or 0
playlist_free_entry(entry) == ZeroEntry

\* the result of an operation: the playlist after it, its return value (TRUE
\* for a void function), and whether it dereferenced a NULL pointer
Result(p, r) == [pl |-> p, ret |-> r, fault |-> FALSE]

Fault(p) == [pl |-> p, ret |-> FALSE, fault |-> TRUE]

RBUF_LEN(p) == Len(p.entries)

\* entries[0 .. n-1] of the C array are p.entries[1 .. n]
RemoveAt(s, i) == SubSeq(s, 1, i - 1) \o SubSeq(s, i + 1, Len(s))

\* playlist_delete_index(playlist, idx), idx counted from 0
\* len-- without the memmove: the last entry goes instead of entries[idx]
playlist_delete_index_NoMove(p, idx) ==
    LET len == RBUF_LEN(p)
    IN IF idx >= len THEN p
       ELSE [p EXCEPT !.entries = SubSeq(p.entries, 1, len - 1),
                      !.slot0 = ZeroEntry,
                      !.modified = TRUE]

\* modified is set before the index is compared with the length
playlist_delete_index_SetsModifiedFirst(p, idx) ==
    LET len == RBUF_LEN(p)
    IN IF idx >= len THEN [p EXCEPT !.modified = TRUE]
       ELSE [p EXCEPT !.entries = RemoveAt(p.entries, idx + 1),
                      !.slot0 = ZeroEntry,
                      !.modified = TRUE]

playlist_delete_index(p, idx) ==
    LET len == RBUF_LEN(p)
    IN IF idx >= len THEN p
       ELSE [p EXCEPT !.entries = RemoveAt(p.entries, idx + 1),
                      !.slot0 = ZeroEntry,
                      !.modified = TRUE]

RECURSIVE DeleteByPathFrom_StepsOver(_, _, _)
\* i is incremented after a deletion as well
DeleteByPathFrom_StepsOver(p, real_search_path, i) ==
    IF i >= RBUF_LEN(p) THEN p
    ELSE IF ~playlist_path_equal(real_search_path, p.entries[i + 1].path, p.config)
         THEN DeleteByPathFrom_StepsOver(p, real_search_path, i + 1)
         ELSE DeleteByPathFrom_StepsOver(playlist_delete_index(p, i), real_search_path, i + 1)

RECURSIVE DeleteByPathFrom(_, _, _)
DeleteByPathFrom(p, real_search_path, i) ==
    IF i >= RBUF_LEN(p) THEN p
    ELSE IF ~playlist_path_equal(real_search_path, p.entries[i + 1].path, p.config)
         THEN DeleteByPathFrom(p, real_search_path, i + 1)
         ELSE DeleteByPathFrom(playlist_delete_index(p, i), real_search_path, i)

playlist_delete_by_path(p, search_path) ==
    IF string_is_empty(search_path) THEN p
    ELSE DeleteByPathFrom(p, Str(path_resolve_realpath(search_path.str)), 0)

\* playlist_get_index_by_path: the index (from 1) of the entry stored into
\* *entry, 0 when *entry is left untouched
playlist_get_index_by_path(p, search_path) ==
    IF string_is_empty(search_path) THEN 0
    ELSE LET real_search_path == Str(path_resolve_realpath(search_path.str))
             hits == {i \in 1..RBUF_LEN(p) :
                        playlist_path_equal(real_search_path, p.entries[i].path, p.config)}
         IN IF hits = {} THEN 0 ELSE CHOOSE i \in hits : \A j \in hits : i <= j

playlist_entry_exists(p, path) ==
    IF string_is_empty(path) THEN FALSE
    ELSE LET real_search_path == Str(path_resolve_realpath(path.str))
         IN \E i \in 1..RBUF_LEN(p) :
               playlist_path_equal(real_search_path, p.entries[i].path, p.config)

\* playlist_clear: every entry freed, the length set to 0; modified is not touched
playlist_clear(p) == [p EXCEPT !.entries = <<>>, !.slot0 = ZeroEntry]

----------------------------------------------------------------------------
(* playlist_push and playlist_push_runtime *)

\* the 'real' core path of a pushed entry: the sentinels are kept as they are
RealCorePath(core_path) ==
    IF core_path.str # FILE_PATH_DETECT /\ core_path.str # FILE_PATH_BUILTIN
    THEN Str(path_resolve_realpath(core_path.str))
    ELSE Str(core_path.str)

\* the 'real' content path of a pushed entry: "" when the entry has none
RealPath(path) ==
    IF ~string_is_empty(path) THEN Str(path_resolve_realpath(path.str)) ELSE Str(<<>>)

\* playlist_entries_are_equal(entry_a, entry_b, config)
playlist_entries_are_equal(entry_a, entry_b, config) ==
    IF /\ string_is_empty(entry_a.path) /\ string_is_empty(entry_a.core_path)
       /\ string_is_empty(entry_b.path) /\ string_is_empty(entry_b.core_path)
    THEN TRUE
    ELSE
    LET real_path_a == RealPath(entry_a.path)
        real_core_path_a == IF ~string_is_empty(entry_a.core_path)
                            THEN RealCorePath(entry_a.core_path) ELSE Str(<<>>)
    IN
    IF ~playlist_path_equal(real_path_a, entry_b.path, config) THEN FALSE
    ELSE playlist_core_path_equal(real_core_path_a, entry_b.core_path, config)

\* path and core path of entries[i] against the pushed entry's real paths
PathAndCoreEqual(p, real_path, real_core_path, x) ==
    /\ \/ string_is_empty(real_path) /\ string_is_empty(x.path)
       \/ playlist_path_equal(real_path, x.path, p.config)
    /\ playlist_core_path_equal(real_core_path, x.core_path, p.config)

\* one subsystem string of the pushed entry (a) against the stored one (b):
\* TRUE when the loop of playlist_push 'continue's
SubsystemStrDiffers(a, b) ==
    \/ ~string_is_empty(a) /\ ~string_is_empty(b) /\ ~string_is_equal(b, a)
    \/ string_is_empty(a) /\ ~string_is_empty(b)
    \/ ~string_is_empty(a) /\ string_is_empty(b)

\* the ROM lists of the pushed entry and of a stored entry that has one
RomsDiffer(p, roms_e, roms) ==
    \/ Len(roms_e.elems) # Len(roms.elems)
    \/ \E j \in 1..Len(roms_e.elems) :
          ~playlist_path_equal(RealPath(Str(roms_e.elems[j])), Str(roms.elems[j]), p.config)

\* one iteration of the loop of playlist_push over entries[i]:
\* "skip" (continue), "match", or "fault" (roms->size with roms == NULL)
PushScan(p, e, real_path, real_core_path, x) ==
    IF ~PathAndCoreEqual(p, real_path, real_core_path, x) THEN "skip"
    ELSE IF SubsystemStrDiffers(e.subsystem_ident, x.subsystem_ident) THEN "skip"
    ELSE IF SubsystemStrDiffers(e.subsystem_name, x.subsystem_name) THEN "skip"
    ELSE IF e.subsystem_roms.ptr
         THEN IF ~x.subsystem_roms.ptr THEN "fault"
              ELSE IF RomsDiffer(p, e.subsystem_roms, x.subsystem_roms) THEN "skip"
              ELSE "match"
    ELSE "match"

\* the loop looks at the entry at the front and at no other
FirstHit_FrontOnly(p, e, real_path, real_core_path) ==
    IF RBUF_LEN(p) > 0 /\ PushScan(p, e, real_path, real_core_path, p.entries[1]) # "skip"
    THEN 1 ELSE 0

\* the first index (from 1) at which the loop does not 'continue', 0 if none
FirstHit(p, e, real_path, real_core_path) ==
    LET hits == {i \in 1..RBUF_LEN(p) :
                    PushScan(p, e, real_path, real_core_path, p.entries[i]) # "skip"}
    IN IF hits = {} THEN 0 ELSE CHOOSE i \in hits : \A j \in hits : i <= j

\* the label of the pushed entry is taken although the stored one is set
Backfill_Overwrite(x, e) ==
    [x EXCEPT !.label = IF ~string_is_empty(e.label) THEN Str(e.label.str) ELSE x.label,
              !.crc32 = IF ~x.crc32.ptr /\ ~string_is_empty(e.crc32)
                        THEN Str(e.crc32.str) ELSE x.crc32,
              !.db_name = IF ~x.db_name.ptr /\ ~string_is_empty(e.db_name)
                          THEN Str(e.db_name.str) ELSE x.db_name]

\* "fill in any blanks" of a matching entry
Backfill(x, e) ==
    [x EXCEPT !.label = IF ~x.label.ptr /\ ~string_is_empty(e.label)
                        THEN Str(e.label.str) ELSE x.label,
              !.crc32 = IF ~x.crc32.ptr /\ ~string_is_empty(e.crc32)
                        THEN Str(e.crc32.str) ELSE x.crc32,
              !.db_name = IF ~x.db_name.ptr /\ ~string_is_empty(e.db_name)
                          THEN Str(e.db_name.str) ELSE x.db_name]

\* strdup of a field of the pushed entry when it is not empty, else NULL
DupNonEmpty(s) == IF ~string_is_empty(s) THEN Str(s.str) ELSE NULL

\* the entry playlist_push writes into entries[0]
NewEntry(e, real_path, real_core_path, core_name) ==
    [ZeroEntry EXCEPT
        !.path = DupNonEmpty(real_path),
        !.label = DupNonEmpty(e.label),
        !.core_path = DupNonEmpty(real_core_path),
        !.core_name = DupNonEmpty(core_name),
        !.db_name = DupNonEmpty(e.db_name),
        !.crc32 = DupNonEmpty(e.crc32),
        !.subsystem_ident = DupNonEmpty(e.subsystem_ident),
        !.subsystem_name = DupNonEmpty(e.subsystem_name),
        !.subsystem_roms = IF e.subsystem_roms.ptr
                           THEN StrList(e.subsystem_roms.elems) ELSE NULL_LIST]

\* no entry is freed at capacity
KeptOnInsert_NoEvict(p) == p.entries

\* at capacity the first entry is freed instead of the last
KeptOnInsert_EvictFirst(p) ==
    IF RBUF_LEN(p) = p.config.capacity THEN Tail(p.entries) ELSE p.entries

\* the entries that stay when a new entry is put in front: at capacity the
\* last one is freed (len--), otherwise the buffer grows by one
KeptOnInsert(p) ==
    IF RBUF_LEN(p) = p.config.capacity
    THEN SubSeq(p.entries, 1, RBUF_LEN(p) - 1)
    ELSE p.entries

\* the memmove and the store to entries[0] left out: the match stays where it is
MoveToFront_NoBump(s, i, x) == [s EXCEPT ![i] = x]

\* entries[i] and entries[0] change places
MoveToFront_Swaps(s, i, x) ==
    <<x>> \o SubSeq(s, 2, i - 1) \o <<s[1]>> \o SubSeq(s, i + 1, Len(s))

\* entries[i] moved to entries[0], entries[0 .. i-1] shifted back by one
\* the match goes to the front and the entries behind it come before the
\* entries that were in front of it
MoveToFront_Rotates(s, i, x) == <<x>> \o SubSeq(s, i + 1, Len(s)) \o SubSeq(s, 1, i - 1)

MoveToFront(s, i, x) == <<x>> \o SubSeq(s, 1, i - 1) \o SubSeq(s, i + 1, Len(s))

\* modified is set before the test of the index of the match
playlist_push_FrontMatchModifies(p, e, oom) ==
    IF string_is_empty(e.core_path) THEN Result(p, FALSE)
    ELSE
    LET real_path == RealPath(e.path)
        real_core_path == RealCorePath(e.core_path)
        core_name == IF string_is_empty(e.core_name)
                     THEN Str(fill_pathname_base_noext(real_core_path.str))
                     ELSE e.core_name
        len == RBUF_LEN(p)
        i == FirstHit(p, e, real_path, real_core_path)
    IN
    IF string_is_empty(real_core_path) THEN Result(p, FALSE)
    ELSE IF string_is_empty(core_name) THEN Result(p, FALSE)
    ELSE IF i > 0
    THEN IF PushScan(p, e, real_path, real_core_path, p.entries[i]) = "fault"
         THEN Fault(p)
         ELSE LET x == Backfill(p.entries[i], e)
                  entry_updated == x # p.entries[i]
              IN IF i = 1
                 THEN IF entry_updated
                      THEN Result([p EXCEPT !.entries[1] = x, !.modified = TRUE], TRUE)
                      ELSE Result([p EXCEPT !.modified = TRUE], FALSE)
                 ELSE Result([p EXCEPT !.entries = MoveToFront(p.entries, i, x),
                                       !.modified = TRUE], TRUE)
    ELSE IF p.config.capacity = 0 THEN Result(p, FALSE)
    ELSE IF len # p.config.capacity /\ oom THEN Result(p, FALSE)
    ELSE Result([p EXCEPT
                    !.entries = <<NewEntry(e, real_path, real_core_path, core_name)>>
                                \o KeptOnInsert(p),
                    !.alloc = TRUE,
                    !.slot0 = ZeroEntry,
                    !.modified = TRUE], TRUE)

\* playlist_push(playlist, entry); oom: RBUF_TRYFIT cannot allocate
playlist_push(p, e, oom) ==
    IF string_is_empty(e.core_path) THEN Result(p, FALSE)
    ELSE
    LET real_path == RealPath(e.path)
        real_core_path == RealCorePath(e.core_path)
        core_name == IF string_is_empty(e.core_name)
                     THEN Str(fill_pathname_base_noext(real_core_path.str))
                     ELSE e.core_name
        len == RBUF_LEN(p)
        i == FirstHit(p, e, real_path, real_core_path)
    IN
    IF string_is_empty(real_core_path) THEN Result(p, FALSE)
    ELSE IF string_is_empty(core_name) THEN Result(p, FALSE)
    ELSE IF i > 0
    THEN IF PushScan(p, e, real_path, real_core_path, p.entries[i]) = "fault"
         THEN Fault(p)
         ELSE LET x == Backfill(p.entries[i], e)
                  entry_updated == x # p.entries[i]
              IN IF i = 1
                 THEN IF entry_updated
                      THEN Result([p EXCEPT !.entries[1] = x, !.modified = TRUE], TRUE)
                      ELSE Result(p, FALSE)
                 ELSE Result([p EXCEPT !.entries = MoveToFront(p.entries, i, x),
                                       !.modified = TRUE], TRUE)
    ELSE IF p.config.capacity = 0 THEN Result(p, FALSE)
    ELSE IF len # p.config.capacity /\ oom THEN Result(p, FALSE)
    ELSE Result([p EXCEPT
                    !.entries = <<NewEntry(e, real_path, real_core_path, core_name)>>
                                \o KeptOnInsert(p),
                    !.alloc = TRUE,
                    !.slot0 = ZeroEntry,
                    !.modified = TRUE], TRUE)

\* what entries[0] holds when playlist_push_runtime starts to fill it in:
\* memmove leaves the old entries[0] there; with no entry left it is the slot
\* as it was freed or left, and never written memory if the buffer is new
StaleSlot0(p, uninit) ==
    LET kept == KeptOnInsert(p)
    IN IF Len(kept) > 0 THEN kept[1]
       ELSE IF RBUF_LEN(p) > 0 THEN playlist_free_entry(p.entries[1])
       ELSE IF p.alloc THEN p.slot0
       ELSE uninit

\* the entry playlist_push_runtime leaves in entries[0]: only the paths, the
\* runtime values and the two display strings are assigned
NewRuntimeEntry(stale, e, real_path, real_core_path) ==
    [stale EXCEPT
        !.path = DupNonEmpty(real_path),
        !.core_path = DupNonEmpty(real_core_path),
        !.runtime_status = e.runtime_status,
        !.runtime_hours = e.runtime_hours,
        !.runtime_minutes = e.runtime_minutes,
        !.runtime_seconds = e.runtime_seconds,
        !.last_played_year = e.last_played_year,
        !.last_played_month = e.last_played_month,
        !.last_played_day = e.last_played_day,
        !.last_played_hour = e.last_played_hour,
        !.last_played_minute = e.last_played_minute,
        !.last_played_second = e.last_played_second,
        !.runtime_str = DupNonEmpty(e.runtime_str),
        !.last_played_str = DupNonEmpty(e.last_played_str)]

\* the fields of an entry that point to memory of the heap
PointerFields ==
    {"path", "label", "core_path", "core_name", "db_name", "crc32", "subsystem_ident",
     "subsystem_name", "subsystem_roms", "runtime_str", "last_played_str"}

\* an entry whose pointers are told apart from every pointer strdup returns
MarkedEntry ==
    [f \in DOMAIN ZeroEntry |->
        IF f = "subsystem_roms" THEN StrList(<<<<"&">>>>)
        ELSE IF f \in PointerFields THEN Str(<<"&">>)
        ELSE ZeroEntry[f]]

\* the pointers that entries[0] and entries[1] have in common when
\* playlist_push_runtime has inserted e: memmove copied the old entries[0]
\* to entries[1], and entries[0] keeps every pointer that is not assigned
SharedPointers(p, e) ==
    LET kept == KeptOnInsert(p)
        new == NewRuntimeEntry(MarkedEntry, e, RealPath(e.path), RealCorePath(e.core_path))
    IN IF Len(kept) = 0 THEN {}
       ELSE {f \in PointerFields : new[f] = MarkedEntry[f] /\ kept[1][f].ptr}

FirstRuntimeHit(p, real_path, real_core_path) ==
    LET hits == {i \in 1..RBUF_LEN(p) :
                    PathAndCoreEqual(p, real_path, real_core_path, p.entries[i])}
    IN IF hits = {} THEN 0 ELSE CHOOSE i \in hits : \A j \in hits : i <= j

\* the test of capacity 0 left out
playlist_push_runtime_NoCapacityTest(p, e, oom, uninit) ==
    IF string_is_empty(e.core_path) THEN Result(p, FALSE)
    ELSE
    LET real_path == RealPath(e.path)
        real_core_path == RealCorePath(e.core_path)
        len == RBUF_LEN(p)
        i == FirstRuntimeHit(p, real_path, real_core_path)
    IN
    IF string_is_empty(real_core_path) THEN Result(p, FALSE)
    ELSE IF i = 1 THEN Result(p, FALSE)
    ELSE IF i > 1
    THEN Result([p EXCEPT !.entries = MoveToFront(p.entries, i, p.entries[i]),
                          !.modified = TRUE], TRUE)
    ELSE IF len # p.config.capacity /\ oom THEN Result(p, FALSE)
    ELSE Result([p EXCEPT
                    !.entries = <<NewRuntimeEntry(StaleSlot0(p, uninit), e,
                                                  real_path, real_core_path)>>
                                \o KeptOnInsert(p),
                    !.alloc = TRUE,
                    !.slot0 = ZeroEntry,
                    !.modified = TRUE], TRUE)

\* the two tests of the core path left out
playlist_push_runtime_NoCorePathTest(p, e, oom, uninit) ==
    LET real_path == RealPath(e.path)
        real_core_path == RealCorePath(e.core_path)
        len == RBUF_LEN(p)
        i == FirstRuntimeHit(p, real_path, real_core_path)
    IN
    IF i = 1 THEN Result(p, FALSE)
    ELSE IF i > 1
    THEN Result([p EXCEPT !.entries = MoveToFront(p.entries, i, p.entries[i]),
                          !.modified = TRUE], TRUE)
    ELSE IF p.config.capacity = 0 THEN Result(p, FALSE)
    ELSE IF len # p.config.capacity /\ oom THEN Result(p, FALSE)
    ELSE Result([p EXCEPT
                    !.entries = <<NewRuntimeEntry(StaleSlot0(p, uninit), e,
                                                  real_path, real_core_path)>>
                                \o KeptOnInsert(p),
                    !.alloc = TRUE,
                    !.slot0 = ZeroEntry,
                    !.modified = TRUE], TRUE)

\* the scan of playlist_push, with its subsystem tests, in place of the scan
\* for path and core path
playlist_push_runtime_SubsystemTest(p, e, oom, uninit) ==
    IF string_is_empty(e.core_path) THEN Result(p, FALSE)
    ELSE
    LET real_path == RealPath(e.path)
        real_core_path == RealCorePath(e.core_path)
        len == RBUF_LEN(p)
        i == FirstHit(p, e, real_path, real_core_path)
    IN
    IF string_is_empty(real_core_path) THEN Result(p, FALSE)
    ELSE IF i = 1 THEN Result(p, FALSE)
    ELSE IF i > 1
    THEN Result([p EXCEPT !.entries = MoveToFront(p.entries, i, p.entries[i]),
                          !.modified = TRUE], TRUE)
    ELSE IF p.config.capacity = 0 THEN Result(p, FALSE)
    ELSE IF len # p.config.capacity /\ oom THEN Result(p, FALSE)
    ELSE Result([p EXCEPT
                    !.entries = <<NewRuntimeEntry(StaleSlot0(p, uninit), e,
                                                  real_path, real_core_path)>>
                                \o KeptOnInsert(p),
                    !.alloc = TRUE,
                    !.slot0 = ZeroEntry,
                    !.modified = TRUE], TRUE)

\* playlist_push_runtime(playlist, entry); oom as above, uninit: the content
\* of never written memory
playlist_push_runtime(p, e, oom, uninit) ==
    IF string_is_empty(e.core_path) THEN Result(p, FALSE)
    ELSE
    LET real_path == RealPath(e.path)
        real_core_path == RealCorePath(e.core_path)
        len == RBUF_LEN(p)
        i == FirstRuntimeHit(p, real_path, real_core_path)
    IN
    IF string_is_empty(real_core_path) THEN Result(p, FALSE)
    ELSE IF i = 1 THEN Result(p, FALSE)
    ELSE IF i > 1
    THEN Result([p EXCEPT !.entries = MoveToFront(p.entries, i, p.entries[i]),
                          !.modified = TRUE], TRUE)
    ELSE IF p.config.capacity = 0 THEN Result(p, FALSE)
    ELSE IF len # p.config.capacity /\ oom THEN Result(p, FALSE)
    ELSE Result([p EXCEPT
                    !.entries = <<NewRuntimeEntry(StaleSlot0(p, uninit), e,
                                                  real_path, real_core_path)>>
                                \o KeptOnInsert(p),
                    !.alloc = TRUE,
                    !.slot0 = ZeroEntry,
                    !.modified = TRUE], TRUE)

----------------------------------------------------------------------------
(* playlist_update and playlist_update_runtime *)

\* One string field of playlist_update: the new pointer is taken when it is
\* not NULL and is not the pointer the entry already holds.  same: the caller
\* passed the entry's own pointer.
UpdatedStr(cur, new, same) == IF new.ptr /\ ~same THEN Str(new.str) ELSE cur

StrChanges(new, same) == new.ptr /\ ~same

UpdateFields == {"path", "label", "core_path", "core_name", "db_name", "crc32"}

\* playlist_update(playlist, idx, update_entry), idx counted from 0;
\* same: the fields of update_entry that point to the entry's own strings
playlist_update(p, idx, u, same) ==
    IF idx >= RBUF_LEN(p) THEN p
    ELSE
    LET entry == p.entries[idx + 1]
        new == [entry EXCEPT
                  !.path = UpdatedStr(entry.path, u.path, "path" \in same),
                  !.label = UpdatedStr(entry.label, u.label, "label" \in same),
                  !.core_path = UpdatedStr(entry.core_path, u.core_path, "core_path" \in same),
                  !.core_name = UpdatedStr(entry.core_name, u.core_name, "core_name" \in same),
                  !.db_name = UpdatedStr(entry.db_name, u.db_name, "db_name" \in same),
                  !.crc32 = UpdatedStr(entry.crc32, u.crc32, "crc32" \in same)]
        changed == \E f \in UpdateFields : StrChanges(u[f], f \in same)
    IN [p EXCEPT !.entries[idx + 1] = new,
                 !.modified = IF changed THEN TRUE ELSE p.modified]

RuntimeNumFields ==
    {"runtime_status", "runtime_hours", "runtime_minutes", "runtime_seconds",
     "last_played_year", "last_played_month", "last_played_day",
     "last_played_hour", "last_played_minute", "last_played_second"}

RuntimeStrFields == {"path", "core_path", "runtime_str", "last_played_str"}

\* playlist_update_runtime(playlist, idx, update_entry, register_update)
playlist_update_runtime(p, idx, u, same, register_update) ==
    IF idx >= RBUF_LEN(p) THEN p
    ELSE
    LET entry == p.entries[idx + 1]
        new == [entry EXCEPT
                  !.path = UpdatedStr(entry.path, u.path, "path" \in same),
                  !.core_path = UpdatedStr(entry.core_path, u.core_path, "core_path" \in same),
                  !.runtime_status = u.runtime_status,
                  !.runtime_hours = u.runtime_hours,
                  !.runtime_minutes = u.runtime_minutes,
                  !.runtime_seconds = u.runtime_seconds,
                  !.last_played_year = u.last_played_year,
                  !.last_played_month = u.last_played_month,
                  !.last_played_day = u.last_played_day,
                  !.last_played_hour = u.last_played_hour,
                  !.last_played_minute = u.last_played_minute,
                  !.last_played_second = u.last_played_second,
                  !.runtime_str = UpdatedStr(entry.runtime_str, u.runtime_str,
                                             "runtime_str" \in same),
                  !.last_played_str = UpdatedStr(entry.last_played_str, u.last_played_str,
                                                 "last_played_str" \in same)]
        changed == \/ \E f \in RuntimeStrFields : StrChanges(u[f], f \in same)
                   \/ \E f \in RuntimeNumFields : u[f] # entry[f]
    IN [p EXCEPT !.entries[idx + 1] = new,
                 !.modified = IF changed THEN p.modified \/ register_update
                              ELSE p.modified]

----------------------------------------------------------------------------
(* Sorting *)

PLAYLIST_SORT_MODE_DEFAULT == 0

PLAYLIST_SORT_MODE_ALPHABETICAL == 1

PLAYLIST_SORT_MODE_OFF == 2

LABEL_DISPLAY_MODE_DEFAULT == 0

LABEL_DISPLAY_MODE_KEEP_REGION_AND_DISC_INDEX == 6

PLAYLIST_THUMBNAIL_MODE_DEFAULT == 0

PLAYLIST_THUMBNAIL_MODE_BOXARTS == 4

PLAYLIST_THUMBNAIL_RIGHT == 0

PLAYLIST_THUMBNAIL_LEFT == 1

\* the characters in the order strcasecmp gives them (after tolower)
CharCode(c) ==
    CASE c = "#" -> 1
      [] c = "." -> 2
      [] c = ".bin" -> 3
      [] c = ".dll" -> 4
      [] c = ".rom" -> 5
      [] c = ".so" -> 6
      [] c = ".zip" -> 7
      [] c = "/" -> 8
      [] c = "?" -> 9
      [] c = "G" -> 10
      [] c = "H" -> 11
      [] c = "a" -> 12
      [] c = "b" -> 13
      [] c = "c" -> 14
      [] OTHER -> 15

RECURSIVE SeqCompare(_, _)
\* strcmp on two character sequences: negative, 0 or positive
SeqCompare(a, b) ==
    IF a = <<>> /\ b = <<>> THEN 0
    ELSE IF a = <<>> THEN -1
    ELSE IF b = <<>> THEN 1
    ELSE IF CharCode(Head(a)) # CharCode(Head(b))
         THEN CharCode(Head(a)) - CharCode(Head(b))
         ELSE SeqCompare(Tail(a), Tail(b))

strcasecmp(a, b) == SeqCompare(LowerSeq(a), LowerSeq(b))

\* fill_short_pathname_representation: the file name without its extension
fill_short_pathname_representation(s) == fill_pathname_base_noext(s)

\* the string playlist_qsort_func compares for an entry
SortKey(a) ==
    IF ~string_is_empty(a.label) THEN a.label.str
    ELSE IF ~string_is_empty(a.path) THEN fill_short_pathname_representation(a.path.str)
    ELSE IF ~string_is_empty(a.core_name) THEN a.core_name.str
    ELSE <<>>

playlist_qsort_func(a, b) == strcasecmp(SortKey(a), SortKey(b))

\* the orders qsort may leave: every permutation that the comparison accepts
\* (entries that compare equal may end in any order)
OrderPerms(s) ==
    {t \in [1..Len(s) -> 1..Len(s)] : \A i, j \in 1..Len(s) : i # j => t[i] # t[j]}

SortedOrders(s) ==
    {[i \in 1..Len(s) |-> s[t[i]]] : t \in
        {t \in OrderPerms(s) :
            \A i \in 1..(Len(s) - 1) : playlist_qsort_func(s[t[i]], s[t[i + 1]]) <= 0}}

\* playlist_qsort(playlist); sorted: the order qsort leaves
\* the test of sort_mode left out
playlist_qsort_AnyMode(p, sorted) ==
    IF ~p.alloc THEN p ELSE [p EXCEPT !.entries = sorted]

playlist_qsort(p, sorted) ==
    IF p.sort_mode = PLAYLIST_SORT_MODE_OFF \/ ~p.alloc THEN p
    ELSE [p EXCEPT !.entries = sorted]

----------------------------------------------------------------------------
(* Metadata setters *)

playlist_set_default_core_path(p, core_path) ==
    IF string_is_empty(core_path) THEN p
    ELSE LET real_core_path == RealCorePath(core_path)
         IN IF string_is_empty(real_core_path) THEN p
            ELSE IF ~string_is_equal(p.default_core_path, real_core_path)
                 THEN [p EXCEPT !.default_core_path = Str(real_core_path.str),
                                !.modified = TRUE]
                 ELSE p

playlist_set_default_core_name(p, core_name) ==
    IF string_is_empty(core_name) THEN p
    ELSE IF ~string_is_equal(p.default_core_name, core_name)
         THEN [p EXCEPT !.default_core_name = Str(core_name.str), !.modified = TRUE]
         ELSE p

playlist_set_label_display_mode(p, label_display_mode) ==
    IF p.label_display_mode # label_display_mode
    THEN [p EXCEPT !.label_display_mode = label_display_mode, !.modified = TRUE]
    ELSE p

playlist_set_thumbnail_mode(p, thumbnail_id, thumbnail_mode) ==
    CASE thumbnail_id = PLAYLIST_THUMBNAIL_RIGHT ->
            [p EXCEPT !.right_thumbnail_mode = thumbnail_mode, !.modified = TRUE]
      [] thumbnail_id = PLAYLIST_THUMBNAIL_LEFT ->
            [p EXCEPT !.left_thumbnail_mode = thumbnail_mode, !.modified = TRUE]
      [] OTHER -> p

playlist_set_sort_mode(p, sort_mode) ==
    IF p.sort_mode # sort_mode
    THEN [p EXCEPT !.sort_mode = sort_mode, !.modified = TRUE]
    ELSE p

----------------------------------------------------------------------------
(* The structured format: what the writer sends to the JSON writer, which is *)
(* what the JSON parser hands back to the handlers, event by event.          *)
(* t: "SO" / "EO" start and end of an object, "SA" / "EA" of an array,       *)
(* "M" an object member name, "S" a string value, "N" a number value,        *)
(* "ERR" input the parser rejects.                                           *)

Ev(t) == [t |-> t, s |-> <<>>, n |-> 0]

Member(name) == [t |-> "M", s |-> name, n |-> 0]

StringEv(s) == [t |-> "S", s |-> s, n |-> 0]

NumberEv(n) == [t |-> "N", s |-> <<>>, n |-> n]

RECURSIVE Snprintf_u4(_)
\* snprintf(uint_str, 4, "%u", n) followed by strtoul: at most three digits
\* fit, the most significant ones
Snprintf_u4(n) == IF n < 1000 THEN n ELSE Snprintf_u4(n \div 10)

RECURSIVE Flatten(_)
Flatten(ss) == IF ss = <<>> THEN <<>> ELSE Head(ss) \o Flatten(Tail(ss))

\* the values of crc32 and db_name written under each other's name
WriteEntryJSON_Swapped(e) ==
    <<Ev("SO"),
      Member(<<"path">>), StringEv(OrEmpty(e.path)),
      Member(<<"label">>), StringEv(OrEmpty(e.label)),
      Member(<<"core_path">>), StringEv(OrEmpty(e.core_path)),
      Member(<<"core_name">>), StringEv(OrEmpty(e.core_name)),
      Member(<<"crc32">>), StringEv(OrEmpty(e.db_name)),
      Member(<<"db_name">>), StringEv(OrEmpty(e.crc32))>>
    \o (IF ~string_is_empty(e.subsystem_ident)
        THEN <<Member(<<"subsystem_", "ident">>), StringEv(OrEmpty(e.subsystem_ident))>>
        ELSE <<>>)
    \o (IF ~string_is_empty(e.subsystem_name)
        THEN <<Member(<<"subsystem_", "name">>), StringEv(OrEmpty(e.subsystem_name))>>
        ELSE <<>>)
    \o (IF e.subsystem_roms.ptr /\ Len(e.subsystem_roms.elems) > 0
        THEN <<Member(<<"subsystem_", "roms">>), Ev("SA")>>
             \o [j \in 1..Len(e.subsystem_roms.elems) |-> StringEv(e.subsystem_roms.elems[j])]
             \o <<Ev("EA")>>
        ELSE <<>>)
    \o <<Ev("EO")>>

\* the per-entry object of playlist_write_file
WriteEntryJSON(e) ==
    <<Ev("SO"),
      Member(<<"path">>), StringEv(OrEmpty(e.path)),
      Member(<<"label">>), StringEv(OrEmpty(e.label)),
      Member(<<"core_path">>), StringEv(OrEmpty(e.core_path)),
      Member(<<"core_name">>), StringEv(OrEmpty(e.core_name)),
      Member(<<"crc32">>), StringEv(OrEmpty(e.crc32)),
      Member(<<"db_name">>), StringEv(OrEmpty(e.db_name))>>
    \o (IF ~string_is_empty(e.subsystem_ident)
        THEN <<Member(<<"subsystem_", "ident">>), StringEv(OrEmpty(e.subsystem_ident))>>
        ELSE <<>>)
    \o (IF ~string_is_empty(e.subsystem_name)
        THEN <<Member(<<"subsystem_", "name">>), StringEv(OrEmpty(e.subsystem_name))>>
        ELSE <<>>)
    \o (IF e.subsystem_roms.ptr /\ Len(e.subsystem_roms.elems) > 0
        THEN <<Member(<<"subsystem_", "roms">>), Ev("SA")>>
             \o [j \in 1..Len(e.subsystem_roms.elems) |-> StringEv(e.subsystem_roms.elems[j])]
             \o <<Ev("EA")>>
        ELSE <<>>)
    \o <<Ev("EO")>>

\* the document of playlist_write_file in the structured format
WriteJSON(p) ==
    <<Ev("SO"),
      Member(<<"version">>), StringEv(<<"1.4">>),
      Member(<<"default_core_path">>), StringEv(OrEmpty(p.default_core_path)),
      Member(<<"default_core_name">>), StringEv(OrEmpty(p.default_core_name))>>
    \o (IF ~string_is_empty(p.base_content_directory)
        THEN <<Member(<<"base_content_directory">>), StringEv(p.base_content_directory.str)>>
        ELSE <<>>)
    \o <<Member(<<"label_display_mode">>), NumberEv(Snprintf_u4(p.label_display_mode)),
         Member(<<"right_thumbnail_mode">>), NumberEv(Snprintf_u4(p.right_thumbnail_mode)),
         Member(<<"left_thumbnail_mode">>), NumberEv(Snprintf_u4(p.left_thumbnail_mode)),
         Member(<<"sort_mode">>), NumberEv(Snprintf_u4(p.sort_mode)),
         Member(<<"items">>), Ev("SA")>>
    \o Flatten([i \in 1..RBUF_LEN(p) |-> WriteEntryJSON(p.entries[i])])
    \o <<Ev("EA"), Ev("EO")>>

----------------------------------------------------------------------------
(* The streaming reader of the structured format.  A reader state r holds   *)
(* the JSONContext, the playlist being filled, and the entry slot           *)
(* entries[RBUF_LEN] that JSONStartObjectHandler reserves.  A pointer into  *)
(* an entry is [idx, f]: field f of entries[idx] (idx from 0); idx = -1 is  *)
(* NULL.  A pointer to a playlist field is the field's name, "" is NULL.    *)

NoTarget == [idx |-> -1, f |-> ""]

Target(idx, f) == [idx |-> idx, f |-> f]

\* JSONContext context = {0}; allocs: how many RBUF_TRYFIT calls can succeed
NewContext(p, allocs) ==
    [pl |-> p, slot |-> p.slot0,
     current_entry |-> -1,
     current_meta_string |-> NULL, current_items_string |-> NULL,
     current_entry_val |-> NoTarget, current_meta_val |-> "",
     current_entry_uint_val |-> NoTarget,
     current_entry_string_list_val |-> NoTarget,
     current_meta_label_display_mode_val |-> "",
     current_meta_thumbnail_mode_val |-> "",
     current_meta_sort_mode_val |-> "",
     array_depth |-> 0, object_depth |-> 0,
     in_items |-> FALSE, in_subsystem_roms |-> FALSE,
     capacity_exceeded |-> FALSE, out_of_memory |-> FALSE,
     allocs |-> allocs, aborted |-> FALSE]

\* *tgt = v for a pointer into the entries: a visible entry or the reserved slot
StoreEntryField(r, tgt, v) ==
    IF tgt.idx < Len(r.pl.entries)
    THEN [r EXCEPT !.pl.entries[tgt.idx + 1][tgt.f] = v]
    ELSE [r EXCEPT !.slot[tgt.f] = v]

LoadEntryField(r, tgt) ==
    IF tgt.idx < Len(r.pl.entries) THEN r.pl.entries[tgt.idx + 1][tgt.f]
    ELSE r.slot[tgt.f]

JSONStartArrayHandler(r) ==
    LET r1 == [r EXCEPT !.array_depth = r.array_depth + 1]
    IN IF r1.object_depth = 1
       THEN IF string_is_equal(r1.current_meta_string, Str(<<"items">>)) /\ r1.array_depth = 1
            THEN [r1 EXCEPT !.in_items = TRUE] ELSE r1
       ELSE IF r1.object_depth = 2 /\ r1.array_depth = 2
                 /\ string_is_equal(r1.current_items_string, Str(<<"subsystem_", "roms">>))
            THEN [r1 EXCEPT !.in_subsystem_roms = TRUE] ELSE r1

JSONEndArrayHandler(r) ==
    LET r1 == [r EXCEPT !.array_depth = r.array_depth - 1]
    IN IF r1.object_depth = 1
       THEN IF r1.in_items /\ string_is_equal(r1.current_meta_string, Str(<<"items">>))
               /\ r1.array_depth = 0
            THEN [r1 EXCEPT !.current_meta_string = NULL, !.in_items = FALSE,
                            !.current_items_string = NULL]
            ELSE r1
       ELSE IF r1.object_depth = 2 /\ r1.in_subsystem_roms
                 /\ string_is_equal(r1.current_items_string, Str(<<"subsystem_", "roms">>))
                 /\ r1.array_depth = 1
            THEN [r1 EXCEPT !.in_subsystem_roms = FALSE] ELSE r1

\* the test of the capacity left out: every item gets a slot
JSONStartObjectHandler_NoLimit(r) ==
    LET r1 == [r EXCEPT !.object_depth = r.object_depth + 1]
        len == Len(r.pl.entries)
    IN IF r1.in_items /\ r1.object_depth = 2 /\ r1.array_depth = 1 /\ ~r1.capacity_exceeded
       THEN IF r1.allocs = 0
            THEN [r1 EXCEPT !.out_of_memory = TRUE, !.aborted = TRUE]
            ELSE [r1 EXCEPT !.allocs = r1.allocs - 1,
                            !.pl.alloc = TRUE,
                            !.current_entry = len,
                            !.slot = ZeroEntry]
       ELSE r1

\* the parse is aborted at the first item beyond the capacity
JSONStartObjectHandler_AbortsAtCapacity(r) ==
    LET r1 == [r EXCEPT !.object_depth = r.object_depth + 1]
        len == Len(r.pl.entries)
    IN IF r1.in_items /\ r1.object_depth = 2 /\ r1.array_depth = 1 /\ ~r1.capacity_exceeded
       THEN IF len < r1.pl.config.capacity
            THEN IF r1.allocs = 0
                 THEN [r1 EXCEPT !.out_of_memory = TRUE, !.aborted = TRUE]
                 ELSE [r1 EXCEPT !.allocs = r1.allocs - 1,
                                 !.pl.alloc = TRUE,
                                 !.current_entry = len,
                                 !.slot = ZeroEntry]
            ELSE [r1 EXCEPT !.capacity_exceeded = TRUE,
                            !.current_entry = -1,
                            !.pl.modified = TRUE,
                            !.aborted = TRUE]
       ELSE r1

JSONStartObjectHandler(r) ==
    LET r1 == [r EXCEPT !.object_depth = r.object_depth + 1]
        len == Len(r.pl.entries)
    IN IF r1.in_items /\ r1.object_depth = 2 /\ r1.array_depth = 1 /\ ~r1.capacity_exceeded
       THEN IF len < r1.pl.config.capacity
            THEN IF r1.allocs = 0
                 THEN [r1 EXCEPT !.out_of_memory = TRUE, !.aborted = TRUE]
                 ELSE [r1 EXCEPT !.allocs = r1.allocs - 1,
                                 !.pl.alloc = TRUE,
                                 !.current_entry = len,
                                 !.slot = ZeroEntry]
            ELSE [r1 EXCEPT !.capacity_exceeded = TRUE,
                            !.current_entry = -1,
                            !.pl.modified = TRUE]
       ELSE r1

\* the depth of the object is not tested: the end of an object nested in an
\* items entry commits the slot as well
JSONEndObjectHandler_AnyDepth(r) ==
    LET r1 == IF r.in_items /\ r.array_depth = 1 /\ ~r.capacity_exceeded
              THEN [r EXCEPT !.pl.entries = Append(r.pl.entries, r.slot)]
              ELSE r
    IN [r1 EXCEPT !.object_depth = r.object_depth - 1]

JSONEndObjectHandler(r) ==
    LET r1 == IF r.in_items /\ r.object_depth = 2 /\ r.array_depth = 1
                 /\ ~r.capacity_exceeded
              THEN [r EXCEPT !.pl.entries = Append(r.pl.entries, r.slot)]
              ELSE r
    IN [r1 EXCEPT !.object_depth = r.object_depth - 1]

\* the string targets are left selected after the value
JSONStringHandler_KeepsTarget(r, pValue) ==
    IF r.in_items /\ r.in_subsystem_roms /\ r.object_depth = 2 /\ r.array_depth = 2
    THEN IF r.current_entry_string_list_val # NoTarget /\ pValue # <<>>
         THEN LET old == LoadEntryField(r, r.current_entry_string_list_val)
              IN StoreEntryField(r, r.current_entry_string_list_val,
                                 StrList(Append(old.elems, pValue)))
         ELSE r
    ELSE IF r.in_items /\ r.object_depth = 2
    THEN IF r.array_depth = 1 /\ r.current_entry_val # NoTarget /\ pValue # <<>>
         THEN StoreEntryField(r, r.current_entry_val, Str(pValue))
         ELSE r
    ELSE IF r.object_depth = 1 /\ r.array_depth = 0
              /\ r.current_meta_val # "" /\ pValue # <<>>
    THEN [r EXCEPT !.current_meta_string = NULL,
                   !.pl[r.current_meta_val] = Str(pValue)]
    ELSE r

JSONStringHandler(r, pValue) ==
    LET r1 ==
          IF r.in_items /\ r.in_subsystem_roms /\ r.object_depth = 2 /\ r.array_depth = 2
          THEN IF r.current_entry_string_list_val # NoTarget /\ pValue # <<>>
               THEN LET old == LoadEntryField(r, r.current_entry_string_list_val)
                    IN StoreEntryField(r, r.current_entry_string_list_val,
                                       StrList(Append(old.elems, pValue)))
               ELSE r
          ELSE IF r.in_items /\ r.object_depth = 2
          THEN IF r.array_depth = 1 /\ r.current_entry_val # NoTarget /\ pValue # <<>>
               THEN StoreEntryField(r, r.current_entry_val, Str(pValue))
               ELSE r
          ELSE IF r.object_depth = 1 /\ r.array_depth = 0
                    /\ r.current_meta_val # "" /\ pValue # <<>>
          THEN [r EXCEPT !.current_meta_string = NULL,
                         !.pl[r.current_meta_val] = Str(pValue)]
          ELSE r
    IN [r1 EXCEPT !.current_entry_val = NoTarget, !.current_meta_val = ""]

JSONNumberHandler(r, n) ==
    LET r1 ==
          IF r.in_items /\ r.object_depth = 2
          THEN IF r.array_depth = 1 /\ r.current_entry_uint_val # NoTarget
               THEN StoreEntryField(r, r.current_entry_uint_val, n)
               ELSE r
          ELSE IF r.object_depth = 1 /\ r.array_depth = 0 /\ r.current_meta_string.ptr
          THEN LET r2 == [r EXCEPT !.current_meta_string = NULL]
               IN IF r.current_meta_label_display_mode_val # ""
                  THEN [r2 EXCEPT !.pl[r.current_meta_label_display_mode_val] = n]
                  ELSE IF r.current_meta_thumbnail_mode_val # ""
                  THEN [r2 EXCEPT !.pl[r.current_meta_thumbnail_mode_val] = n]
                  ELSE IF r.current_meta_sort_mode_val # ""
                  THEN [r2 EXCEPT !.pl[r.current_meta_sort_mode_val] = n]
                  ELSE r2
          ELSE r
    IN [r1 EXCEPT !.current_entry_uint_val = NoTarget,
                  !.current_meta_label_display_mode_val = "",
                  !.current_meta_thumbnail_mode_val = "",
                  !.current_meta_sort_mode_val = ""]

EntryStringMembers ==
    {<<"path">>, <<"label">>, <<"core_path">>, <<"core_name">>, <<"crc32">>, <<"db_name">>}

\* the field a member name of an items entry stands for
FieldOf(name) ==
    CASE name = <<"subsystem_", "ident">> -> "subsystem_ident"
      [] name = <<"subsystem_", "name">> -> "subsystem_name"
      [] name = <<"subsystem_", "roms">> -> "subsystem_roms"
      [] name = <<"runtime_", "hours">> -> "runtime_hours"
      [] name = <<"runtime_", "minutes">> -> "runtime_minutes"
      [] name = <<"runtime_", "seconds">> -> "runtime_seconds"
      [] name = <<"last_played_", "year">> -> "last_played_year"
      [] name = <<"last_played_", "month">> -> "last_played_month"
      [] name = <<"last_played_", "day">> -> "last_played_day"
      [] name = <<"last_played_", "hour">> -> "last_played_hour"
      [] name = <<"last_played_", "minute">> -> "last_played_minute"
      [] name = <<"last_played_", "second">> -> "last_played_second"
      [] OTHER -> name[1]

EntryUintMembers ==
    {<<"runtime_", "hours">>, <<"runtime_", "minutes">>, <<"runtime_", "seconds">>,
     <<"last_played_", "year">>, <<"last_played_", "month">>, <<"last_played_", "day">>,
     <<"last_played_", "hour">>, <<"last_played_", "minute">>, <<"last_played_", "second">>}

\* the member name of an items entry selects the pointer the value goes to
SelectEntryTarget(r, pValue) ==
    IF pValue \in EntryStringMembers
    THEN [r EXCEPT !.current_entry_val = Target(r.current_entry, FieldOf(pValue))]
    ELSE IF pValue \in {<<"subsystem_", "ident">>, <<"subsystem_", "name">>}
    THEN [r EXCEPT !.current_entry_val = Target(r.current_entry, FieldOf(pValue))]
    ELSE IF pValue = <<"subsystem_", "roms">>
    THEN [r EXCEPT !.current_entry_string_list_val = Target(r.current_entry, FieldOf(pValue))]
    ELSE IF pValue \in EntryUintMembers
    THEN [r EXCEPT !.current_entry_uint_val = Target(r.current_entry, FieldOf(pValue))]
    ELSE r

\* the member name at the top level selects the playlist field
SelectMetaTarget(r, pValue) ==
    IF pValue \in {<<"default_core_path">>, <<"default_core_name">>,
                   <<"base_content_directory">>}
    THEN [r EXCEPT !.current_meta_val = pValue[1]]
    ELSE IF pValue = <<"label_display_mode">>
    THEN [r EXCEPT !.current_meta_label_display_mode_val = pValue[1]]
    ELSE IF pValue \in {<<"right_thumbnail_mode">>, <<"left_thumbnail_mode">>}
    THEN [r EXCEPT !.current_meta_thumbnail_mode_val = pValue[1]]
    ELSE IF pValue = <<"sort_mode">>
    THEN [r EXCEPT !.current_meta_sort_mode_val = pValue[1]]
    ELSE r

JSONObjectMemberHandler(r, pValue) ==
    IF r.in_items /\ r.object_depth = 2
    THEN IF r.array_depth = 1
         THEN IF r.current_entry_val # NoTarget THEN [r EXCEPT !.aborted = TRUE]
              ELSE IF pValue # <<>>
                   THEN LET r1 == [r EXCEPT !.current_items_string = Str(pValue)]
                        IN IF ~r1.capacity_exceeded
                           THEN SelectEntryTarget(r1, pValue)
                           ELSE [r1 EXCEPT !.current_entry_val = NoTarget,
                                           !.current_entry_uint_val = NoTarget,
                                           !.current_entry_string_list_val = NoTarget]
                   ELSE r
         ELSE r
    ELSE IF r.object_depth = 1 /\ r.array_depth = 0
    THEN IF r.current_meta_val # "" THEN [r EXCEPT !.aborted = TRUE]
         ELSE IF pValue # <<>>
              THEN SelectMetaTarget([r EXCEPT !.current_meta_string = Str(pValue)], pValue)
              ELSE r
    ELSE r

\* one parse event handed to its handler; "ERR" is input the parser rejects
HandleEvent(r, ev) ==
    CASE ev.t = "SO" -> JSONStartObjectHandler(r)
      [] ev.t = "EO" -> JSONEndObjectHandler(r)
      [] ev.t = "SA" -> JSONStartArrayHandler(r)
      [] ev.t = "EA" -> JSONEndArrayHandler(r)
      [] ev.t = "M" -> JSONObjectMemberHandler(r, ev.s)
      [] ev.t = "S" -> JSONStringHandler(r, ev.s)
      [] ev.t = "N" -> JSONNumberHandler(r, ev.n)
      [] OTHER -> [r EXCEPT !.aborted = TRUE]

RECURSIVE ParseEvents(_, _)
\* JSON_Parser_Parse over the whole input: the handlers run in order until
\* one aborts or the parser rejects the input
ParseEvents(r, evs) ==
    IF evs = <<>> \/ r.aborted THEN r
    ELSE ParseEvents(HandleEvent(r, Head(evs)), Tail(evs))

----------------------------------------------------------------------------
(* The legacy format: a text file, six lines per entry and a block of five  *)
(* metadata lines.  The text is a sequence of characters; "\n" ends a line. *)

PLAYLIST_ENTRIES == 6

DigitChars == <<"0", "1", "2", "3", "4", "5", "6", "7", "8", "9">>

RECURSIVE Digits(_)
\* printf("%d") of a value that is not negative
Digits(n) == IF n < 10 THEN <<DigitChars[n + 1]>> ELSE Digits(n \div 10) \o <<DigitChars[(n % 10) + 1]>>

DigitVal(c) == CHOOSE d \in 0..9 : DigitChars[d + 1] = c

IsDigit(c) == \E d \in 1..10 : DigitChars[d] = c

RECURSIVE DigitsValue(_, _)
DigitsValue(s, acc) ==
    IF s = <<>> THEN acc ELSE DigitsValue(Tail(s), acc * 10 + DigitVal(Head(s)))

\* string_to_unsigned: 0 for the empty string and for a string that holds
\* anything but digits
string_to_unsigned(s) ==
    IF s = <<>> \/ \E i \in 1..Len(s) : ~IsDigit(s[i]) THEN 0 ELSE DigitsValue(s, 0)

\* strlcpy into a buffer of len characters
strlcpy(s, len) == IF Len(s) < len THEN s ELSE SubSeq(s, 1, len - 1)

\* strchr: the index of the first c at or after index from, 0 when there is none
strchr(s, c, from) ==
    LET hits == {i \in from..Len(s) : s[i] = c}
    IN IF hits = {} THEN 0 ELSE CHOOSE i \in hits : \A j \in hits : i <= j

\* the six lines of one entry
WriteEntryLegacy(e) ==
    OrEmpty(e.path) \o <<"\n">> \o OrEmpty(e.label) \o <<"\n">>
    \o OrEmpty(e.core_path) \o <<"\n">> \o OrEmpty(e.core_name) \o <<"\n">>
    \o OrEmpty(e.crc32) \o <<"\n">> \o OrEmpty(e.db_name) \o <<"\n">>

\* the text of playlist_write_file in the legacy format
WriteLegacy(p) ==
    Flatten([i \in 1..RBUF_LEN(p) |-> WriteEntryLegacy(p.entries[i])])
    \o <<"default_core_path", " = ", "\"">> \o OrEmpty(p.default_core_path) \o <<"\"", "\n">>
    \o <<"default_core_name", " = ", "\"">> \o OrEmpty(p.default_core_name) \o <<"\"", "\n">>
    \o <<"label_display_mode", " = ", "\"">> \o Digits(p.label_display_mode) \o <<"\"", "\n">>
    \o <<"thumbnail_mode", " = ", "\"">> \o Digits(p.right_thumbnail_mode) \o <<"|">>
       \o Digits(p.left_thumbnail_mode) \o <<"\"", "\n">>
    \o <<"sort_mode", " = ", "\"">> \o Digits(p.sort_mode) \o <<"\"", "\n">>

RECURSIVE SplitLines(_)
\* the lines intfstream_gets returns one after the other, with the line end
\* and what follows a carriage return cut off
SplitLines(text) ==
    IF text = <<>> THEN <<>>
    ELSE LET nl == strchr(text, "\n", 1)
             raw == IF nl = 0 THEN text ELSE SubSeq(text, 1, nl - 1)
             cr == strchr(raw, "\r", 1)
             line == IF cr = 0 THEN raw ELSE SubSeq(raw, 1, cr - 1)
         IN IF nl = 0 THEN <<line>>
            ELSE <<line>> \o SplitLines(SubSeq(text, nl + 1, Len(text)))

\* get_old_format_metadata_value: what lies between the first two quotation
\* marks, cut to the buffer; value is left as it is when a mark is missing
get_old_format_metadata_value(metadata_line, value, len) ==
    LET start == strchr(metadata_line, "\"", 1)
        end == IF start = 0 THEN 0 ELSE strchr(metadata_line, "\"", start + 1)
    IN IF start = 0 \/ end = 0 THEN value
       ELSE strlcpy(SubSeq(metadata_line, start + 1, end - 1), len)

\* strncmp(key, line, STRLEN_CONST(key)) == 0
LineHasKey(line, key) == Len(line) > 0 /\ line[1] = key

RECURSIVE string_split(_, _)
\* string_split: the pieces between delimiters, empty pieces left out
string_split(s, delim) ==
    IF s = <<>> THEN <<>>
    ELSE LET d == strchr(s, delim, 1)
         IN IF d = 0 THEN <<s>>
            ELSE (IF d = 1 THEN <<>> ELSE <<SubSeq(s, 1, d - 1)>>)
                 \o string_split(SubSeq(s, d + 1, Len(s)), delim)

\* the entry the legacy reader builds from six lines
LegacyEntry(lines) ==
    [ZeroEntry EXCEPT
        !.path = IF lines[1] # <<>> THEN Str(lines[1]) ELSE NULL,
        !.label = IF lines[2] # <<>> THEN Str(lines[2]) ELSE NULL,
        !.core_path = IF lines[3] # <<>> THEN Str(lines[3]) ELSE NULL,
        !.core_name = IF lines[4] # <<>> THEN Str(lines[4]) ELSE NULL,
        !.crc32 = IF lines[5] # <<>> THEN Str(lines[5]) ELSE NULL,
        !.db_name = IF lines[6] # <<>> THEN Str(lines[6]) ELSE NULL]

\* the metadata block: lines holds the lines_read < PLAYLIST_ENTRIES lines
LegacyMetadata(p, lines) ==
    LET lines_read == Len(lines)
        default_core_path ==
            IF lines_read >= 1 /\ LineHasKey(lines[1], "default_core_path")
            THEN get_old_format_metadata_value(lines[1], <<>>, 4096) ELSE <<>>
        default_core_name ==
            IF lines_read >= 2 /\ LineHasKey(lines[2], "default_core_name")
            THEN get_old_format_metadata_value(lines[2], <<>>, 4096) ELSE <<>>
        p2 == IF lines_read >= 2 /\ default_core_path # <<>> /\ default_core_name # <<>>
              THEN [p EXCEPT !.default_core_path = Str(default_core_path),
                             !.default_core_name = Str(default_core_name)]
              ELSE p
        display_mode ==
            string_to_unsigned(get_old_format_metadata_value(lines[3], <<>>, 4))
        p3 == IF lines_read >= 3 /\ LineHasKey(lines[3], "label_display_mode")
                 /\ display_mode <= LABEL_DISPLAY_MODE_KEEP_REGION_AND_DISC_INDEX
              THEN [p2 EXCEPT !.label_display_mode = display_mode] ELSE p2
        thumbnail_modes ==
            string_split(get_old_format_metadata_value(lines[4], <<>>, 8), "|")
        right == string_to_unsigned(thumbnail_modes[1])
        left == string_to_unsigned(thumbnail_modes[2])
        p4 == IF lines_read >= 4 /\ LineHasKey(lines[4], "thumbnail_mode")
                 /\ Len(thumbnail_modes) = 2
              THEN [p3 EXCEPT
                      !.right_thumbnail_mode =
                          IF right <= PLAYLIST_THUMBNAIL_MODE_BOXARTS
                          THEN right ELSE p3.right_thumbnail_mode,
                      !.left_thumbnail_mode =
                          IF left <= PLAYLIST_THUMBNAIL_MODE_BOXARTS
                          THEN left ELSE p3.left_thumbnail_mode]
              ELSE p3
        sort_mode == string_to_unsigned(get_old_format_metadata_value(lines[5], <<>>, 4))
        p5 == IF lines_read >= 5 /\ LineHasKey(lines[5], "sort_mode")
                 /\ sort_mode <= PLAYLIST_SORT_MODE_OFF
              THEN [p4 EXCEPT !.sort_mode = sort_mode] ELSE p4
    IN p5

RECURSIVE ReadLegacy(_, _, _)
\* the loop "while (len < playlist->config.capacity)" over the lines left;
\* allocs: how many RBUF_TRYFIT calls can succeed
ReadLegacy(p, lines, allocs) ==
    IF ~(RBUF_LEN(p) < p.config.capacity) THEN [pl |-> p, res |-> TRUE]
    ELSE IF Len(lines) >= PLAYLIST_ENTRIES
    THEN IF allocs = 0 THEN [pl |-> p, res |-> FALSE]
         ELSE ReadLegacy([p EXCEPT !.entries = Append(p.entries,
                                        LegacyEntry(SubSeq(lines, 1, PLAYLIST_ENTRIES))),
                                   !.alloc = TRUE,
                                   !.slot0 = ZeroEntry],
                         SubSeq(lines, PLAYLIST_ENTRIES + 1, Len(lines)), allocs - 1)
    ELSE [pl |-> LegacyMetadata(p, lines), res |-> TRUE]

----------------------------------------------------------------------------
(* The file at config.path, and playlist_write_file / playlist_read_file /  *)
(* playlist_init.  A file written in the structured format is kept as the   *)
(* events its text parses to, a file in the legacy format as its text.      *)

NoFile ==
    [exists |-> FALSE, structured |-> FALSE, compressed |-> FALSE,
     events |-> <<>>, text |-> <<>>]

StructuredFile(events, compressed) ==
    [exists |-> TRUE, structured |-> TRUE, compressed |-> compressed,
     events |-> events, text |-> <<>>]

LegacyFile(text, compressed) ==
    [exists |-> TRUE, structured |-> FALSE, compressed |-> compressed,
     events |-> <<>>, text |-> text]

\* the first printable character of the file, "" at end of file
FirstGraph(file) ==
    IF file.structured THEN (IF file.events = <<>> THEN "" ELSE "{")
    ELSE LET hits == {i \in 1..Len(file.text) : file.text[i] \notin {"\n", "\r", " "}}
         IN IF hits = {} THEN ""
            ELSE file.text[CHOOSE i \in hits : \A j \in hits : i <= j]

\* what the JSON parser makes of the file: the events of a structured file;
\* a text that only starts like an object is rejected after its first brace
Tokenize(file) ==
    IF file.structured THEN file.events ELSE <<Ev("SO"), Ev("ERR")>>

\* the modified flag is not reset after the file was written
playlist_write_file_KeepsModified(p, file, open_ok, writer_ok) ==
    IF ~(p.modified \/ p.compressed # p.config.compress
         \/ p.old_format # p.config.old_format)
    THEN [pl |-> p, disk |-> file, io |-> <<>>]
    ELSE IF ~open_ok THEN [pl |-> p, disk |-> file, io |-> <<>>]
    ELSE LET compressed == p.config.compress
         IN IF p.config.old_format
            THEN [pl |-> [p EXCEPT !.old_format = TRUE, !.compressed = compressed],
                  disk |-> LegacyFile(WriteLegacy(p), compressed),
                  io |-> <<"open", "write", "close">>]
            ELSE IF ~writer_ok
            THEN [pl |-> p,
                  disk |-> [NoFile EXCEPT !.exists = TRUE, !.compressed = compressed],
                  io |-> <<"open", "close">>]
            ELSE [pl |-> [p EXCEPT !.old_format = FALSE, !.compressed = compressed],
                  disk |-> StructuredFile(WriteJSON(p), compressed),
                  io |-> <<"open", "write", "close">>]

\* playlist_write_file(playlist); open_ok: the file can be opened for writing,
\* writer_ok: JSON_Writer_Create succeeds.  io: the calls made on the file
\* stream, in order
playlist_write_file(p, file, open_ok, writer_ok) ==
    IF ~(p.modified \/ p.compressed # p.config.compress
         \/ p.old_format # p.config.old_format)
    THEN [pl |-> p, disk |-> file, io |-> <<>>]
    ELSE IF ~open_ok THEN [pl |-> p, disk |-> file, io |-> <<>>]
    ELSE LET compressed == p.config.compress
         IN IF p.config.old_format
            THEN [pl |-> [p EXCEPT !.old_format = TRUE, !.modified = FALSE,
                                   !.compressed = compressed],
                  disk |-> LegacyFile(WriteLegacy(p), compressed),
                  io |-> <<"open", "write", "close">>]
            ELSE IF ~writer_ok
            THEN [pl |-> p,
                  disk |-> [NoFile EXCEPT !.exists = TRUE, !.compressed = compressed],
                  io |-> <<"open", "close">>]
            ELSE [pl |-> [p EXCEPT !.old_format = FALSE, !.modified = FALSE,
                                   !.compressed = compressed],
                  disk |-> StructuredFile(WriteJSON(p), compressed),
                  io |-> <<"open", "write", "close">>]

\* a file that cannot be opened for reading is taken for an error
playlist_read_file_MissingFileFails(p, file, parser_ok, allocs) ==
    IF ~file.exists THEN [pl |-> p, res |-> FALSE, io |-> <<>>]
    ELSE
    LET p1 == [p EXCEPT !.compressed = file.compressed]
        test_char == FirstGraph(file)
    IN
    IF test_char = "" THEN [pl |-> p1, res |-> TRUE, io |-> <<"open", "read", "close">>]
    ELSE
    LET p2 == [p1 EXCEPT !.old_format = (test_char # "{")]
    IN
    IF ~p2.old_format
    THEN IF ~parser_ok THEN [pl |-> p2, res |-> TRUE, io |-> <<"open", "read", "close">>]
         ELSE LET r == ParseEvents(NewContext(p2, allocs), Tokenize(file))
              IN [pl |-> [r.pl EXCEPT !.slot0 = IF RBUF_LEN(r.pl) = 0 /\ r.pl.alloc
                                                THEN r.slot ELSE ZeroEntry],
                  res |-> ~r.out_of_memory,
                  io |-> <<"open", "read", "close">>]
    ELSE LET r == ReadLegacy(p2, SplitLines(file.text), allocs)
         IN [pl |-> r.pl, res |-> r.res, io |-> <<"open", "read", "close">>]

\* the entries of a parse that was aborted are given up
playlist_read_file_RollsBack(p, file, parser_ok, allocs) ==
    IF ~file.exists THEN [pl |-> p, res |-> TRUE, io |-> <<>>]
    ELSE
    LET p1 == [p EXCEPT !.compressed = file.compressed]
        test_char == FirstGraph(file)
    IN
    IF test_char = "" THEN [pl |-> p1, res |-> TRUE, io |-> <<"open", "read", "close">>]
    ELSE
    LET p2 == [p1 EXCEPT !.old_format = (test_char # "{")]
    IN
    IF ~p2.old_format
    THEN IF ~parser_ok THEN [pl |-> p2, res |-> TRUE, io |-> <<"open", "read", "close">>]
         ELSE LET r == ParseEvents(NewContext(p2, allocs), Tokenize(file))
              IN [pl |-> [r.pl EXCEPT !.slot0 = IF RBUF_LEN(r.pl) = 0 /\ r.pl.alloc
                                                THEN r.slot ELSE ZeroEntry,
                                      !.entries = IF r.aborted THEN <<>> ELSE @],
                  res |-> ~r.out_of_memory,
                  io |-> <<"open", "read", "close">>]
    ELSE LET r == ReadLegacy(p2, SplitLines(file.text), allocs)
         IN [pl |-> r.pl, res |-> r.res, io |-> <<"open", "read", "close">>]

\* playlist_read_file(playlist); parser_ok: JSON_Parser_Create succeeds,
\* allocs: how many times the entry buffer can grow
playlist_read_file(p, file, parser_ok, allocs) ==
    IF ~file.exists THEN [pl |-> p, res |-> TRUE, io |-> <<>>]
    ELSE
    LET p1 == [p EXCEPT !.compressed = file.compressed]
        test_char == FirstGraph(file)
    IN
    IF test_char = "" THEN [pl |-> p1, res |-> TRUE, io |-> <<"open", "read", "close">>]
    ELSE
    LET p2 == [p1 EXCEPT !.old_format = (test_char # "{")]
    IN
    IF ~p2.old_format
    THEN IF ~parser_ok THEN [pl |-> p2, res |-> TRUE, io |-> <<"open", "read", "close">>]
         ELSE LET r == ParseEvents(NewContext(p2, allocs), Tokenize(file))
              IN [pl |-> [r.pl EXCEPT !.slot0 = IF RBUF_LEN(r.pl) = 0 /\ r.pl.alloc
                                                THEN r.slot ELSE ZeroEntry],
                  res |-> ~r.out_of_memory,
                  io |-> <<"open", "read", "close">>]
    ELSE LET r == ReadLegacy(p2, SplitLines(file.text), allocs)
         IN [pl |-> r.pl, res |-> r.res, io |-> <<"open", "read", "close">>]

\* the playlist playlist_init sets up before it reads the file
NewPlaylist(config) ==
    [entries |-> <<>>, alloc |-> FALSE, slot0 |-> ZeroEntry,
     modified |-> FALSE, old_format |-> FALSE, compressed |-> FALSE,
     cached_external |-> FALSE,
     default_core_name |-> NULL, default_core_path |-> NULL,
     base_content_directory |-> NULL,
     label_display_mode |-> LABEL_DISPLAY_MODE_DEFAULT,
     right_thumbnail_mode |-> PLAYLIST_THUMBNAIL_MODE_DEFAULT,
     left_thumbnail_mode |-> PLAYLIST_THUMBNAIL_MODE_DEFAULT,
     sort_mode |-> PLAYLIST_SORT_MODE_DEFAULT,
     config |-> config]

\* string_starts_with_size(s, prefix, strlen(prefix))
StartsWith(s, prefix) ==
    Len(s) >= Len(prefix) /\ SubSeq(s, 1, Len(prefix)) = prefix

\* the base path is replaced and the delimiters are left as they are
path_replace_base_path_NoConversion(in_path, in_oldrefpath, in_refpath) ==
    IF StartsWith(in_path, in_oldrefpath)
    THEN in_refpath \o SubSeq(in_path, Len(in_oldrefpath) + 1, Len(in_path))
    ELSE in_path

\* under a POSIX file system every '\' of the new path becomes '/'
path_replace_base_path_and_convert_to_local_file_system(in_path, in_oldrefpath, in_refpath) ==
    IF StartsWith(in_path, in_oldrefpath)
    THEN LET out_path == in_refpath \o SubSeq(in_path, Len(in_oldrefpath) + 1, Len(in_path))
         IN [i \in 1..Len(out_path) |-> IF out_path[i] = "\\" THEN "/" ELSE out_path[i]]
    ELSE in_path

\* the ROM paths of an entry after auto-fixing: empty paths are left out
FixRoms(roms, old, new) ==
    IF roms.ptr /\ Len(roms.elems) > 0
    THEN StrList(SelectSeq(
            [j \in 1..Len(roms.elems) |->
                IF roms.elems[j] = <<>> THEN <<>>
                ELSE path_replace_base_path_and_convert_to_local_file_system(
                        roms.elems[j], old, new)],
            LAMBDA x : x # <<>>))
    ELSE roms

FixEntry(entry, old, new) ==
    IF string_is_empty(entry.path) THEN entry
    ELSE [entry EXCEPT
            !.path = Str(path_replace_base_path_and_convert_to_local_file_system(
                            entry.path.str, old, new)),
            !.subsystem_roms = FixRoms(entry.subsystem_roms, old, new)]

\* the rest of playlist_init, rd being what playlist_read_file returned: NULL
\* is returned when the read failed; with autofix enabled and a base content
\* directory that is not the configured one, the paths are rebased and the
\* playlist is saved
playlist_init_autofix(rd, config, file, open_ok, writer_ok) ==
    IF ~rd.res THEN [pl |-> NewPlaylist(config), disk |-> file, ok |-> FALSE, io |-> rd.io]
    ELSE IF config.autofix_paths
            /\ ~string_is_equal(rd.pl.base_content_directory,
                                Str(config.base_content_directory))
    THEN LET fixed ==
                 IF ~string_is_empty(rd.pl.base_content_directory)
                 THEN [i \in 1..RBUF_LEN(rd.pl) |->
                         FixEntry(rd.pl.entries[i], rd.pl.base_content_directory.str,
                                  config.base_content_directory)]
                 ELSE rd.pl.entries
             w == playlist_write_file(
                     [rd.pl EXCEPT !.entries = fixed,
                                   !.base_content_directory =
                                       Str(config.base_content_directory),
                                   !.modified = TRUE], file, open_ok, writer_ok)
         IN [pl |-> w.pl, disk |-> w.disk, ok |-> TRUE, io |-> rd.io \o w.io]
    ELSE [pl |-> rd.pl, disk |-> file, ok |-> TRUE, io |-> rd.io]

\* playlist_init(config): ok = FALSE when NULL is returned
playlist_init(config, file, parser_ok, allocs, open_ok, writer_ok) ==
    playlist_init_autofix(playlist_read_file(NewPlaylist(config), file, parser_ok, allocs),
                          config, file, open_ok, writer_ok)

----------------------------------------------------------------------------
(* The inputs of the model: a few content paths, cores and entries *)

PathA == <<"/", "a", ".rom">>

PathB == <<"/", "b", ".rom">>

Core1 == <<"/", "c1", ".so">>

\* struct playlist_entry as a caller fills it in
Entry(path, core_path) ==
    [ZeroEntry EXCEPT !.path = Str(path), !.core_path = Str(core_path)]

EntryA == Entry(PathA, Core1)

EntryARelative == Entry(<<".", "/", "a", ".rom">>, Core1)

\* EntryA with a label and a checksum
EntryAG == [EntryA EXCEPT !.label = Str(<<"G">>), !.crc32 = Str(<<"c">>)]

\* EntryA with another label and a database name
EntryAH == [EntryA EXCEPT !.label = Str(<<"H">>), !.db_name = Str(<<"b">>)]

EntryB == Entry(PathB, Core1)

\* the content of EntryA with another core
EntryC == Entry(PathA, <<"/", "c2", ".so">>)

\* the content of EntryB as subsystem content with one ROM
EntryS ==
    [EntryB EXCEPT !.subsystem_ident = Str(<<"s">>), !.subsystem_name = Str(<<"n">>),
                   !.subsystem_roms = StrList(<<PathA>>)]

\* an entry without a core path
EntryNoCore == [ZeroEntry EXCEPT !.path = Str(PathA)]

\* the entry of a runtime log: the content of EntryB, one hour played
EntryRuntime == [EntryB EXCEPT !.runtime_hours = 1, !.last_played_year = 2]

\* an entry whose core path has no file name to derive a core name from
EntryNoName == Entry(PathA, <<"/">>)

\* subsystem content whose ROM list holds an empty path
EntrySE ==
    [EntryS EXCEPT !.subsystem_ident = Str(<<"t">>),
                   !.subsystem_roms = StrList(<<<<>>, PathA>>)]

PushInputs ==
    {EntryA, EntryARelative, EntryAG, EntryAH, EntryB, EntryC, EntryS, EntrySE,
     EntryNoCore, EntryNoName}

\* the fields a caller of playlist_update sets
UpdateInputs == {[ZeroEntry EXCEPT !.label = Str(<<"H">>)]}

\* content known by its label only; the label starts with a brace
EntryBrace == [ZeroEntry EXCEPT !.label = Str(<<"{", "G">>), !.core_path = Str(Core1)]

\* the entries pushed before a playlist is saved
FileInputs == {EntryAG, EntryC, EntryS, EntrySE, EntryBrace}

\* playlist_update with an empty string for the label
EmptyLabel == [ZeroEntry EXCEPT !.label = Str(<<>>)]

\* config.capacity is large enough for every buffer the model grows
EnoughAllocs == MaxCapacity + MaxItems + 2

\* what can go wrong during a call: the JSON parser or the JSON writer is
\* not created, the entry buffer cannot grow, the file cannot be opened for
\* writing
NoFailure ==
    [parser_ok |-> TRUE, allocs |-> EnoughAllocs, open_ok |-> TRUE, writer_ok |-> TRUE]

Conditions ==
    {NoFailure, [NoFailure EXCEPT !.parser_ok = FALSE], [NoFailure EXCEPT !.allocs = 0],
     [NoFailure EXCEPT !.open_ok = FALSE], [NoFailure EXCEPT !.writer_ok = FALSE]}

Config(capacity, old_format) ==
    [path |-> <<"p", ".lpl">>, base_content_directory |-> <<>>,
     capacity |-> capacity, old_format |-> old_format, compress |-> FALSE,
     fuzzy_archive_match |-> FALSE, autofix_paths |-> FALSE]

\* no file is being parsed: JSONContext context = {0} of a playlist_read_file
\* that has not started
NoParse == NewContext(NewPlaylist(Config(0, FALSE)), 0)

RECURSIVE PushAll(_, _)
\* the playlist after the entries of es were pushed one after the other
PushAll(p, es) ==
    IF es = <<>> THEN p ELSE PushAll(playlist_push(p, Head(es), FALSE).pl, Tail(es))

\* a playlist of MaxCapacity + 1 entries saved by an earlier session, with
\* sorting switched off
SamplePlaylist ==
    LET es == SubSeq(<<EntryS, EntryC, EntryAG, EntryB>>, 1, MaxCapacity + 1)
    IN playlist_set_sort_mode(PushAll(NewPlaylist(Config(MaxCapacity + 1, FALSE)), es),
                              PLAYLIST_SORT_MODE_OFF)

\* the files a session may find at config.path
InitialDisks ==
    {NoFile,
     playlist_write_file(SamplePlaylist, NoFile, TRUE, TRUE).disk,
     playlist_write_file([SamplePlaylist EXCEPT !.config.old_format = TRUE,
                                                !.sort_mode = PLAYLIST_SORT_MODE_ALPHABETICAL],
                         NoFile, TRUE, TRUE).disk}

----------------------------------------------------------------------------
(* The state machine of a session that works on one playlist in memory *)

\* the index (from 1) at which playlist_push finds its match, 0 if none
PushHit(p, e) ==
    IF string_is_empty(e.core_path) THEN 0
    ELSE FirstHit(p, e, RealPath(e.path), RealCorePath(e.core_path))

\* the record of a call: its arguments and result, the size before it, for a
\* push the index of the match, for a call that reads or writes the file the
\* calls it made on the stream (io) and the conditions it ran under (c), for
\* an insertion the pointers the new entry shares with the entry that was at
\* index 0 before (shared)
Last(op, e, idx, ret, hit) ==
    [op |-> op, e |-> e, idx |-> idx, ret |-> ret, hit |-> hit,
     len |-> Len(pl.entries), fault |-> FALSE, io |-> <<>>, c |-> NoFailure,
     shared |-> {}]

FirstCall ==
    [op |-> "init", e |-> ZeroEntry, idx |-> 0, ret |-> TRUE, hit |-> 0,
     len |-> 0, fault |-> FALSE, io |-> <<>>, c |-> NoFailure, shared |-> {}]

Init ==
    /\ WIN32 = FALSE
    /\ pe = [a |-> <<>>, b |-> <<>>, fuzzy |-> FALSE, result |-> FALSE]
    /\ playlist_cached = 0
    /\ heap = <<>>
    /\ pCtx = NoParse
    /\ \E capacity \in 0..MaxCapacity, file \in InitialDisks :
          \E r \in {playlist_init(Config(capacity, FALSE), file, TRUE, EnoughAllocs,
                                   TRUE, TRUE)} :
             /\ pl = r.pl
             /\ disk = r.disk
    /\ last = FirstCall

Push(e, oom) ==
    /\ ~last.fault
    /\ LET r == playlist_push(pl, e, oom)
       IN /\ pl' = r.pl
          /\ last' = [Last("push", e, 0, r.ret, PushHit(pl, e)) EXCEPT !.fault = r.fault]
    /\ UNCHANGED <<disk, WIN32, pe, playlist_cached, heap, pCtx>>

PushRuntime(e, oom, uninit) ==
    /\ ~last.fault
    /\ LET r == playlist_push_runtime(pl, e, oom, uninit)
           hit == FirstRuntimeHit(pl, RealPath(e.path), RealCorePath(e.core_path))
       IN /\ pl' = r.pl
          /\ last' = [Last("push_runtime", e, 0, r.ret, hit)
                         EXCEPT !.shared = IF r.ret /\ hit = 0 THEN SharedPointers(pl, e)
                                           ELSE {}]
    /\ UNCHANGED <<disk, WIN32, pe, playlist_cached, heap, pCtx>>

Update(idx, u) ==
    /\ ~last.fault
    /\ pl' = playlist_update(pl, idx, u, {})
    /\ last' = Last("update", u, idx, TRUE, 0)
    /\ UNCHANGED <<disk, WIN32, pe, playlist_cached, heap, pCtx>>

UpdateRuntime(idx, u, register_update) ==
    /\ ~last.fault
    /\ pl' = playlist_update_runtime(pl, idx, u, {}, register_update)
    /\ last' = Last("update_runtime", u, idx, register_update, 0)
    /\ UNCHANGED <<disk, WIN32, pe, playlist_cached, heap, pCtx>>

DeleteIndex(idx) ==
    /\ ~last.fault
    /\ pl' = playlist_delete_index(pl, idx)
    /\ last' = Last("delete_index", ZeroEntry, idx, TRUE, 0)
    /\ UNCHANGED <<disk, WIN32, pe, playlist_cached, heap, pCtx>>

DeleteByPath(search_path) ==
    /\ ~last.fault
    /\ pl' = playlist_delete_by_path(pl, Str(search_path))
    /\ last' = Last("delete_by_path", [ZeroEntry EXCEPT !.path = Str(search_path)], 0, TRUE, 0)
    /\ UNCHANGED <<disk, WIN32, pe, playlist_cached, heap, pCtx>>

Qsort ==
    /\ ~last.fault
    /\ \E sorted \in SortedOrders(pl.entries) : pl' = playlist_qsort(pl, sorted)
    /\ last' = Last("qsort", ZeroEntry, 0, TRUE, 0)
    /\ UNCHANGED <<disk, WIN32, pe, playlist_cached, heap, pCtx>>

Clear ==
    /\ ~last.fault
    /\ pl' = playlist_clear(pl)
    /\ last' = Last("clear", ZeroEntry, 0, TRUE, 0)
    /\ UNCHANGED <<disk, WIN32, pe, playlist_cached, heap, pCtx>>

SetSortMode(sort_mode) ==
    /\ ~last.fault
    /\ pl' = playlist_set_sort_mode(pl, sort_mode)
    /\ last' = Last("set_sort_mode", ZeroEntry, sort_mode, TRUE, 0)
    /\ UNCHANGED <<disk, WIN32, pe, playlist_cached, heap, pCtx>>

SetDefaultCoreName(core_name) ==
    /\ ~last.fault
    /\ pl' = playlist_set_default_core_name(pl, Str(core_name))
    /\ last' = Last("set_default_core_name", [ZeroEntry EXCEPT !.core_name = Str(core_name)],
                    0, TRUE, 0)
    /\ UNCHANGED <<disk, WIN32, pe, playlist_cached, heap, pCtx>>

Next ==
    \/ \E e \in PushInputs : Push(e, FALSE)
    \/ \E e \in {EntryB, EntryC} : Push(e, TRUE)
    \/ \E u \in UpdateInputs : Update(0, u)
    \/ \E idx \in 0..MaxCapacity : DeleteIndex(idx)
    \/ \E search_path \in {PathA, PathB} : DeleteByPath(search_path)
    \/ Qsort

Spec == Init /\ [][Next]_vars

\* entries without a core: the core path is NULL, or the empty string
NoCoreInputs == {EntryNoCore, [EntryNoCore EXCEPT !.core_path = Str(<<>>)]}

\* the same session with the runtime operations: the six operations that
\* add, change and remove entries
NextRuntime ==
    \/ \E e \in {EntryA, EntryC, EntryS}, oom \in BOOLEAN : Push(e, oom)
    \/ \E oom \in BOOLEAN, uninit \in UninitImages : PushRuntime(EntryRuntime, oom, uninit)
    \/ \E e \in NoCoreInputs : Push(e, FALSE)
    \/ \E e \in NoCoreInputs, uninit \in UninitImages : PushRuntime(e, FALSE, uninit)
    \/ Update(0, EmptyLabel)
    \/ \E register_update \in BOOLEAN : UpdateRuntime(0, EntryRuntime, register_update)
    \/ \E idx \in 0..MaxCapacity : DeleteIndex(idx)
    \/ DeleteByPath(PathA)

SpecRuntime == Init /\ [][NextRuntime]_vars

\* a session of every operation that changes what playlist_write_file saves
NextMutations ==
    \/ \E e \in {EntryA, EntryB} : Push(e, FALSE)
    \/ \E uninit \in UninitImages : PushRuntime(EntryRuntime, FALSE, uninit)
    \/ \E u \in UpdateInputs : Update(0, u)
    \/ DeleteIndex(0)
    \/ DeleteByPath(PathA)
    \/ Clear
    \/ Qsort
    \/ \E sort_mode \in {PLAYLIST_SORT_MODE_ALPHABETICAL, PLAYLIST_SORT_MODE_OFF} :
          SetSortMode(sort_mode)
    \/ SetDefaultCoreName(<<"c1">>)

SpecMutations == Init /\ [][NextMutations]_vars

\* the entries of runtime logs: content of EntryB, content of EntryA, and
\* content that has no path
RuntimeInputs ==
    {EntryRuntime, [EntryRuntime EXCEPT !.path = Str(PathA)],
     [EntryRuntime EXCEPT !.path = NULL]}

\* a session that records play time for content that playlist_push stored
\* with labels and subsystem fields
NextPushRuntime ==
    \/ \E e \in {EntryAG, EntryS, EntryBrace} : Push(e, FALSE)
    \/ \E e \in RuntimeInputs, oom \in BOOLEAN, uninit \in UninitImages :
          PushRuntime(e, oom, uninit)

SpecPushRuntime == Init /\ [][NextPushRuntime]_vars

\* a capacity with room for entries before and after a match
MoveCapacity == MaxCapacity + 2

InitMove ==
    /\ WIN32 = FALSE
    /\ pe = [a |-> <<>>, b |-> <<>>, fuzzy |-> FALSE, result |-> FALSE]
    /\ playlist_cached = 0
    /\ heap = <<>>
    /\ pCtx = NoParse
    /\ disk = NoFile
    /\ pl = NewPlaylist(Config(MoveCapacity, FALSE))
    /\ last = FirstCall

\* a history of four contents that are launched again and again
NextMove == \E e \in {EntryA, EntryAG, EntryB, EntryC, EntryS} : Push(e, FALSE)

SpecMove == InitMove /\ [][NextMove]_vars

\* the content of EntryB as plain content and as subsystem content: with
\* one ROM, with another ROM, with two ROMs, with no ROM list, and under
\* another subsystem
SubsystemInputs ==
    {EntryB, EntryS,
     [EntryS EXCEPT !.subsystem_roms = StrList(<<PathB>>)],
     [EntryS EXCEPT !.subsystem_roms = StrList(<<PathA, PathB>>)],
     [EntryS EXCEPT !.subsystem_roms = NULL_LIST],
     [EntryS EXCEPT !.subsystem_ident = Str(<<"t">>)],
     [EntryS EXCEPT !.subsystem_name = Str(<<"m">>)],
     [EntryB EXCEPT !.subsystem_roms = StrList(<<PathA>>)]}

NextSubsystem == \E e \in SubsystemInputs : Push(e, FALSE)

SpecSubsystem == InitMove /\ [][NextSubsystem]_vars

\* four contents with pairwise different pairs of content path and core path
KeyedInputs ==
    {EntryA, EntryB, EntryC, Entry(PathB, <<"/", "c2", ".so">>)}

\* an empty playlist of some capacity from 1 up
InitKeyed ==
    /\ WIN32 = FALSE
    /\ pe = [a |-> <<>>, b |-> <<>>, fuzzy |-> FALSE, result |-> FALSE]
    /\ playlist_cached = 0
    /\ heap = <<>>
    /\ pCtx = NoParse
    /\ disk = NoFile
    /\ \E N \in 1..(MaxCapacity + 1) : pl = NewPlaylist(Config(N, FALSE))
    /\ last = FirstCall

NextKeyed == \E e \in KeyedInputs : Push(e, FALSE)

SpecKeyed == InitKeyed /\ [][NextKeyed]_vars

ArchiveA == <<"/", "a", ".zip">>

\* contents that may or may not be the same content: a path written in two
\* ways, an archive and two files inside it, content without a path, a core
\* left to be detected, subsystem content with and without a ROM list
MixedInputs ==
    {EntryA, EntryARelative, EntryBrace,
     Entry(ArchiveA, Core1), Entry(ArchiveA \o <<"#", "x">>, Core1),
     Entry(ArchiveA \o <<"#", "y">>, Core1),
     Entry(PathA, FILE_PATH_DETECT),
     EntryS, [EntryS EXCEPT !.subsystem_roms = NULL_LIST],
     [EntryS EXCEPT !.subsystem_roms = StrList(<<PathB>>)]}

\* an empty playlist, with and without fuzzy archive matching
InitMixed ==
    /\ WIN32 = FALSE
    /\ pe = [a |-> <<>>, b |-> <<>>, fuzzy |-> FALSE, result |-> FALSE]
    /\ playlist_cached = 0
    /\ heap = <<>>
    /\ pCtx = NoParse
    /\ disk = NoFile
    /\ \E fuzzy \in BOOLEAN :
          pl = NewPlaylist([Config(MaxCapacity + 1, FALSE)
                               EXCEPT !.fuzzy_archive_match = fuzzy])
    /\ last = FirstCall

NextMixed == \E e \in MixedInputs : Push(e, FALSE)

SpecMixed == InitMixed /\ [][NextMixed]_vars

\* entries without subsystem fields: with and without a content path, a core
\* path, a label
ComparedEntries ==
    {EntryA, EntryARelative, EntryAG, EntryB, EntryC, EntryNoName, EntryNoCore, EntryBrace,
     [EntryBrace EXCEPT !.core_path = Str(<<"/", "c2", ".so">>)], ZeroEntry,
     Entry(<<"/", "z", ".zip">>, Core1), Entry(<<"/", "z", ".zip", "#", "a", ".rom">>, Core1)}

\* a playlist that holds one entry, as playlist_init loaded it
InitEntriesEqual ==
    /\ WIN32 = FALSE
    /\ pe = [a |-> <<>>, b |-> <<>>, fuzzy |-> FALSE, result |-> FALSE]
    /\ playlist_cached = 0
    /\ heap = <<>>
    /\ pCtx = NoParse
    /\ disk = NoFile
    /\ \E entry_b \in ComparedEntries, fuzzy \in BOOLEAN :
          pl = [NewPlaylist([Config(1, FALSE) EXCEPT !.fuzzy_archive_match = fuzzy])
                   EXCEPT !.entries = <<entry_b>>, !.alloc = TRUE]
    /\ last = FirstCall

\* entry_a is compared with the entry of the playlist; the record keeps the
\* index at which a push of entry_a would find its match
EntriesAreEqual(entry_a) ==
    /\ last' = Last("entries_are_equal", entry_a, 0,
                    playlist_entries_are_equal(entry_a, pl.entries[1], pl.config),
                    PushHit(pl, entry_a))
    /\ UNCHANGED <<pl, disk, WIN32, pe, playlist_cached, heap, pCtx>>

NextEntriesEqual == \E entry_a \in ComparedEntries : EntriesAreEqual(entry_a)

SpecEntriesEqual == InitEntriesEqual /\ [][NextEntriesEqual]_vars

----------------------------------------------------------------------------
(* A playlist that is built, saved once, and loaded by later sessions *)

\* the file holds what a completed playlist_write_file wrote
Written(file) == file.exists /\ (file.events # <<>> \/ file.text # <<>>)

InitFile ==
    /\ WIN32 = FALSE
    /\ pe = [a |-> <<>>, b |-> <<>>, fuzzy |-> FALSE, result |-> FALSE]
    /\ playlist_cached = 0
    /\ heap = <<>>
    /\ pCtx = NoParse
    /\ disk = NoFile
    /\ \E old_format \in BOOLEAN :
          pl = playlist_init(Config(MaxItems, old_format), NoFile,
                             TRUE, EnoughAllocs, TRUE, TRUE).pl
    /\ last = FirstCall

WriteFile(open_ok, writer_ok) ==
    /\ ~last.fault
    /\ \E r \in {playlist_write_file(pl, disk, open_ok, writer_ok)} :
          /\ pl' = r.pl
          /\ disk' = r.disk
          /\ last' = [Last("write_file", ZeroEntry, 0, TRUE, 0) EXCEPT !.io = r.io]
    /\ UNCHANGED <<WIN32, pe, playlist_cached, heap, pCtx>>

\* playlist_free, then playlist_init with the capacity of the new session
Load(capacity) ==
    /\ ~last.fault
    /\ \E r \in {playlist_init([pl.config EXCEPT !.capacity = capacity], disk,
                                TRUE, EnoughAllocs, TRUE, TRUE)} :
          /\ pl' = r.pl
          /\ disk' = r.disk
          /\ last' = [Last("load", ZeroEntry, capacity, r.ok, 0) EXCEPT !.io = r.io]
    /\ UNCHANGED <<WIN32, pe, playlist_cached, heap, pCtx>>

\* a session builds a playlist and saves it; later sessions load the file
NextFile ==
    \/ last.op \in {"init", "push", "update"} /\ \E e \in FileInputs : Push(e, FALSE)
    \/ last.op \in {"init", "push", "update"} /\ Update(0, EmptyLabel)
    \/ last.op \in {"init", "push", "update"}
          /\ \E open_ok, writer_ok \in BOOLEAN : WriteFile(open_ok, writer_ok)
    \/ last.op \in {"write_file", "load"} /\ \E capacity \in 0..MaxItems : Load(capacity)

SpecFile == InitFile /\ [][NextFile]_vars

\* the file is cut off after its first k parse events and followed by input
\* that the parser rejects
Damage(k) ==
    /\ disk' = [disk EXCEPT !.events = SubSeq(disk.events, 1, k) \o <<Ev("ERR")>>]
    /\ last' = Last("damage", ZeroEntry, k, TRUE, 0)
    /\ UNCHANGED <<pl, WIN32, pe, playlist_cached, heap, pCtx>>

\* a session saves a playlist in the structured format; the file is damaged
\* before the next session loads it
NextDamaged ==
    \/ last.op \in {"init", "push"} /\ \E e \in {EntryAG, EntryC, EntryS} : Push(e, FALSE)
    \/ last.op = "push" /\ ~pl.config.old_format /\ WriteFile(TRUE, TRUE)
    \/ last.op = "write_file" /\ \E k \in 1..(Len(disk.events) - 1) : Damage(k)
    \/ last.op = "damage" /\ \E capacity \in 0..MaxItems : Load(capacity)

SpecDamaged == InitFile /\ [][NextDamaged]_vars

\* a history that is built, saved and pruned by index, with indices on both
\* sides of the size
NextDelete ==
    \/ \E e \in {EntryA, EntryB, EntryC} : Push(e, FALSE)
    \/ \E idx \in 0..MoveCapacity : DeleteIndex(idx)
    \/ WriteFile(TRUE, TRUE)

SpecDelete == InitMove /\ [][NextDelete]_vars

----------------------------------------------------------------------------
(* The streaming reader, one parse event at a time: playlist_read_file has  *)
(* opened a structured file and JSON_Parser_Parse hands its events to the   *)
(* handlers.  last.idx counts the events handled so far.                    *)

ReaderValues == {StringEv(<<"x">>), NumberEv(2)}

\* a playlist file as an editor can leave it: one metadata member and one
\* item with a known member, perhaps a ROM list, and an unknown member; every
\* member with a string or a number as its value
Document(meta, meta_value, member, value, roms, stray_value) ==
    <<Ev("SO"), Member(meta), meta_value,
      Member(<<"items">>), Ev("SA"),
      Ev("SO"), Member(member), value>>
    \o (IF roms
        THEN <<Member(<<"subsystem_", "roms">>), Ev("SA"),
               StringEv(PathA), StringEv(PathB), Ev("EA")>>
        ELSE <<>>)
    \o <<Member(<<"foo">>), stray_value, Ev("EO"), Ev("EA"), Ev("EO")>>

Documents ==
    {Document(meta, meta_value, member, value, roms, stray_value) :
        meta \in {<<"default_core_path">>, <<"sort_mode">>, <<"label_display_mode">>},
        meta_value \in ReaderValues,
        member \in {<<"label">>, <<"runtime_", "hours">>},
        value \in ReaderValues,
        roms \in BOOLEAN,
        stray_value \in ReaderValues}

InitReader ==
    /\ WIN32 = FALSE
    /\ pe = [a |-> <<>>, b |-> <<>>, fuzzy |-> FALSE, result |-> FALSE]
    /\ playlist_cached = 0
    /\ heap = <<>>
    /\ disk \in {StructuredFile(events, FALSE) : events \in Documents}
    /\ pl = NewPlaylist(Config(MaxItems, FALSE))
    /\ pCtx = NewContext(pl, EnoughAllocs)
    /\ last = FirstCall

\* the parser hands the next event of the file to its handler
ParseStep ==
    /\ last.idx < Len(Tokenize(disk)) /\ ~pCtx.aborted
    /\ pCtx' = HandleEvent(pCtx, Tokenize(disk)[last.idx + 1])
    /\ pl' = pCtx'.pl
    /\ last' = Last("parse", ZeroEntry, last.idx + 1, ~pCtx'.aborted, 0)
    /\ UNCHANGED <<disk, WIN32, pe, playlist_cached, heap>>

NextReader == ParseStep

SpecReader == InitReader /\ [][NextReader]_vars

\* the members of the top level that stand for a playlist field
EnumMembers ==
    {<<"label_display_mode">>, <<"right_thumbnail_mode">>, <<"left_thumbnail_mode">>,
     <<"sort_mode">>}

MetaMembers == EnumMembers \cup {<<"default_core_path">>}

MetaValues == {StringEv(<<"x">>), NumberEv(1), NumberEv(2)}

\* a file with two metadata members and no items, every member with a string
\* or a number as its value
MetaDocuments ==
    {<<Ev("SO"), Member(m1), v1, Member(m2), v2, Ev("EO")>> :
        m1 \in MetaMembers, v1 \in MetaValues, m2 \in MetaMembers, v2 \in MetaValues}

InitMeta ==
    /\ WIN32 = FALSE
    /\ pe = [a |-> <<>>, b |-> <<>>, fuzzy |-> FALSE, result |-> FALSE]
    /\ playlist_cached = 0
    /\ heap = <<>>
    /\ disk \in {StructuredFile(events, FALSE) : events \in MetaDocuments}
    /\ pl = NewPlaylist(Config(MaxItems, FALSE))
    /\ pCtx = NewContext(pl, EnoughAllocs)
    /\ last = FirstCall

NextMeta == ParseStep

SpecMeta == InitMeta /\ [][NextMeta]_vars

\* the content path of the i-th item of a file
ItemPath(i) == <<"/", DigitChars[i + 1], ".rom">>

\* one items entry, with or without an object under a member the reader
\* does not know
ItemEvents(i, nested) ==
    <<Ev("SO"), Member(<<"path">>), StringEv(ItemPath(i))>>
    \o (IF nested
        THEN <<Member(<<"foo">>), Ev("SO"), Member(<<"bar">>), NumberEv(2), Ev("EO")>>
        ELSE <<>>)
    \o <<Ev("EO")>>

\* the metadata members, written after the items array
TrailingMetadata ==
    <<Member(<<"default_core_path">>), StringEv(Core1),
      Member(<<"default_core_name">>), StringEv(<<"c1">>),
      Member(<<"base_content_directory">>), StringEv(<<"/", "base">>),
      Member(<<"label_display_mode">>), NumberEv(1),
      Member(<<"right_thumbnail_mode">>), NumberEv(2),
      Member(<<"left_thumbnail_mode">>), NumberEv(3),
      Member(<<"sort_mode">>), NumberEv(2)>>

\* a file with k items; cut = 0: the whole file, with the metadata after the
\* items when trailing; cut = j > 0: the file ends inside the j-th item, after
\* the value of its path
ItemsDocument(k, nested, trailing, cut) ==
    IF cut = 0
    THEN <<Ev("SO"), Member(<<"items">>), Ev("SA")>>
         \o Flatten([i \in 1..k |-> ItemEvents(i, nested)])
         \o <<Ev("EA")>>
         \o (IF trailing THEN TrailingMetadata ELSE <<>>)
         \o <<Ev("EO")>>
    ELSE <<Ev("SO"), Member(<<"items">>), Ev("SA")>>
         \o Flatten([i \in 1..(cut - 1) |-> ItemEvents(i, nested)])
         \o <<Ev("SO"), Member(<<"path">>), StringEv(ItemPath(cut)), Ev("ERR")>>

ItemsDocuments ==
    {ItemsDocument(k, nested, trailing, cut) :
        k \in 0..(MaxItems + 1), nested \in BOOLEAN, trailing \in BOOLEAN,
        cut \in 0..(MaxItems + 1)}

\* playlist_read_file has opened the file of a playlist of some capacity
InitItems ==
    /\ WIN32 = FALSE
    /\ pe = [a |-> <<>>, b |-> <<>>, fuzzy |-> FALSE, result |-> FALSE]
    /\ playlist_cached = 0
    /\ heap = <<>>
    /\ disk \in {StructuredFile(events, FALSE) : events \in ItemsDocuments}
    /\ \E capacity \in 0..MaxItems : pl = NewPlaylist(Config(capacity, FALSE))
    /\ pCtx = NewContext(pl, EnoughAllocs)
    /\ last = FirstCall

NextItems == ParseStep

SpecItems == InitItems /\ [][NextItems]_vars

----------------------------------------------------------------------------
(* Direct calls of playlist_path_equal, on both kinds of file system *)

\* a file inside an archive: archive, delimiter, inner file
InArchive(archive, inner) == archive \o <<"#">> \o inner

InnerFiles == {<<"r", ".rom">>, <<"s", ".bin">>}

\* ArchiveA, another archive, and ArchiveA in other letter case
Archives == {ArchiveA, <<"/", "b", ".zip">>, <<"/", "A", ".ZIP">>}

ComparedPaths ==
    Archives \cup {InArchive(a, i) : a \in Archives, i \in InnerFiles}
    \cup {PathA, <<>>}

InitPathEqual ==
    /\ WIN32 \in BOOLEAN
    /\ pe = [a |-> <<>>, b |-> <<>>, fuzzy |-> FALSE, result |-> FALSE]
    /\ playlist_cached = 0
    /\ heap = <<>>
    /\ pCtx = NoParse
    /\ disk = NoFile
    /\ pl = NewPlaylist(Config(0, FALSE))
    /\ last = FirstCall

PathEqual(a, b, fuzzy) ==
    /\ pe' = [a |-> a, b |-> b, fuzzy |-> fuzzy,
              result |-> playlist_path_equal(Str(a), Str(b),
                            [pl.config EXCEPT !.fuzzy_archive_match = fuzzy])]
    /\ UNCHANGED <<pl, disk, last, WIN32, playlist_cached, heap, pCtx>>

NextPathEqual ==
    \E a \in ComparedPaths, b \in ComparedPaths, fuzzy \in BOOLEAN : PathEqual(a, b, fuzzy)

SpecPathEqual == InitPathEqual /\ [][NextPathEqual]_vars

----------------------------------------------------------------------------
(* The process-wide cached slot, and the playlists that the cache and other *)
(* holders create.  An object of the heap is known by its index; pl is the  *)
(* content of the most recently created one.                                *)

MaxObjects == 2

\* the per-entry object of playlist_write_runtime_file
WriteRuntimeEntryJSON(e) ==
    <<Ev("SO"),
      Member(<<"path">>), StringEv(OrEmpty(e.path)),
      Member(<<"core_path">>), StringEv(OrEmpty(e.core_path)),
      Member(<<"runtime_", "hours">>), NumberEv(e.runtime_hours),
      Member(<<"runtime_", "minutes">>), NumberEv(e.runtime_minutes),
      Member(<<"runtime_", "seconds">>), NumberEv(e.runtime_seconds),
      Member(<<"last_played_", "year">>), NumberEv(e.last_played_year),
      Member(<<"last_played_", "month">>), NumberEv(e.last_played_month),
      Member(<<"last_played_", "day">>), NumberEv(e.last_played_day),
      Member(<<"last_played_", "hour">>), NumberEv(e.last_played_hour),
      Member(<<"last_played_", "minute">>), NumberEv(e.last_played_minute),
      Member(<<"last_played_", "second">>), NumberEv(e.last_played_second),
      Ev("EO")>>

\* the return after a failed JSON_Writer_Create left out of the cleanup
playlist_write_runtime_file_NoClose(p, file, open_ok, writer_ok) ==
    IF ~p.modified THEN [pl |-> p, disk |-> file, io |-> <<>>]
    ELSE IF ~open_ok THEN [pl |-> p, disk |-> file, io |-> <<>>]
    ELSE IF ~writer_ok
    THEN [pl |-> p, disk |-> [NoFile EXCEPT !.exists = TRUE], io |-> <<"open">>]
    ELSE [pl |-> [p EXCEPT !.modified = FALSE, !.old_format = FALSE, !.compressed = FALSE],
          disk |-> StructuredFile(
                      <<Ev("SO"), Member(<<"version">>), StringEv(<<"1.0">>),
                        Member(<<"items">>), Ev("SA")>>
                      \o Flatten([i \in 1..RBUF_LEN(p) |-> WriteRuntimeEntryJSON(p.entries[i])])
                      \o <<Ev("EA"), Ev("EO")>>, FALSE),
          io |-> <<"open", "write", "close">>]

\* playlist_write_runtime_file(playlist), with open_ok and writer_ok as for
\* playlist_write_file
playlist_write_runtime_file(p, file, open_ok, writer_ok) ==
    IF ~p.modified THEN [pl |-> p, disk |-> file, io |-> <<>>]
    ELSE IF ~open_ok THEN [pl |-> p, disk |-> file, io |-> <<>>]
    ELSE IF ~writer_ok
    THEN [pl |-> p, disk |-> [NoFile EXCEPT !.exists = TRUE], io |-> <<"open", "close">>]
    ELSE [pl |-> [p EXCEPT !.modified = FALSE, !.old_format = FALSE, !.compressed = FALSE],
          disk |-> StructuredFile(
                      <<Ev("SO"), Member(<<"version">>), StringEv(<<"1.0">>),
                        Member(<<"items">>), Ev("SA")>>
                      \o Flatten([i \in 1..RBUF_LEN(p) |-> WriteRuntimeEntryJSON(p.entries[i])])
                      \o <<Ev("EA"), Ev("EO")>>, FALSE),
          io |-> <<"open", "write", "close">>]

\* the second half of playlist_init_cached, r being what playlist_init
\* returned: the file is written at once when its format or compression is
\* not the configured one
playlist_init_cached_write(r, open_ok, writer_ok) ==
    IF ~r.ok THEN r
    ELSE IF r.pl.compressed # r.pl.config.compress
            \/ r.pl.old_format # r.pl.config.old_format
    THEN [playlist_write_file(r.pl, r.disk, open_ok, writer_ok)
             EXCEPT !.io = r.io \o @] @@ [ok |-> TRUE]
    ELSE r

\* playlist_init_cached(config): ok = FALSE when it returns false
playlist_init_cached(config, file, parser_ok, allocs, open_ok, writer_ok) ==
    playlist_init_cached_write(
        playlist_init(config, file, parser_ok, allocs, open_ok, writer_ok),
        open_ok, writer_ok)

\* an object of the heap that is not allocated
NoObject == [allocated |-> FALSE, cached_external |-> FALSE, held |-> FALSE, newest |-> FALSE]

\* the object malloc returns: the first one that is not allocated, 0 if the
\* heap is used up
malloc(h) ==
    IF \A i \in DOMAIN h : h[i].allocated THEN 0
    ELSE CHOOSE i \in DOMAIN h : ~h[i].allocated /\ \A j \in 1..(i - 1) : h[j].allocated

\* the heap after playlist_init returned object ptr; held: to another holder
\* than the cached slot
Allocated(h, ptr, held) ==
    [i \in DOMAIN h |->
        IF i = ptr
        THEN [allocated |-> TRUE, cached_external |-> FALSE, held |-> held, newest |-> TRUE]
        ELSE [h[i] EXCEPT !.newest = FALSE]]

\* playlist_free(ptr), on the heap
playlist_free(h, ptr) == [h EXCEPT ![ptr] = NoObject]

\* playlist_free_cached(), on the slot and the heap
playlist_free_cached(slot, h) ==
    [playlist_cached |-> 0,
     heap |-> IF slot # 0 /\ ~h[slot].cached_external THEN playlist_free(h, slot) ELSE h]

\* playlist_set_cached_external(ptr)
playlist_set_cached_external(slot, h, ptr) ==
    IF ptr = 0 THEN playlist_free_cached(slot, h)
    ELSE [playlist_cached |-> ptr,
          heap |-> [playlist_free_cached(slot, h).heap EXCEPT ![ptr].cached_external = TRUE]]

\* playlist_config_set_base_content_directory(config, path)
playlist_config_set_base_content_directory(config, path) ==
    [config EXCEPT !.autofix_paths = path # <<>>, !.base_content_directory = path]

\* the configurations of the cache: both formats, with and without compression
CachedConfigs ==
    {[Config(MaxItems, old_format) EXCEPT !.compress = compress] :
        old_format \in BOOLEAN, compress \in BOOLEAN}

\* the configurations of the other holders: with and without a base content
\* directory
HolderConfigs ==
    {playlist_config_set_base_content_directory(Config(MaxItems, FALSE), dir) :
        dir \in {<<>>, <<"/", "d">>}}

\* the most recently created playlist has not been freed
Live == \E i \in DOMAIN heap : heap[i].allocated /\ heap[i].newest

InitCachedSlot ==
    /\ WIN32 = FALSE
    /\ pe = [a |-> <<>>, b |-> <<>>, fuzzy |-> FALSE, result |-> FALSE]
    /\ playlist_cached = 0
    /\ heap = [i \in 1..MaxObjects |-> NoObject]
    /\ pCtx = NoParse
    /\ disk = NoFile
    /\ pl = NewPlaylist(Config(MaxItems, FALSE))
    /\ last = FirstCall

\* another holder creates a playlist of its own with playlist_init; a
\* playlist that playlist_init gave up is freed before it returns NULL
PlaylistInit(config, c) ==
    /\ malloc(heap) # 0
    /\ \E r \in {playlist_init(config, disk, c.parser_ok, c.allocs, c.open_ok,
                                c.writer_ok)} :
          /\ pl' = IF r.ok THEN r.pl ELSE pl
          /\ disk' = r.disk
          /\ heap' = IF r.ok THEN Allocated(heap, malloc(heap), TRUE) ELSE heap
          /\ last' = [Last("playlist_init", ZeroEntry, 0, r.ok, 0) EXCEPT !.io = r.io, !.c = c]
    /\ UNCHANGED <<WIN32, pe, playlist_cached, pCtx>>

\* the holder of playlist ptr frees it, once the cached slot has let go of it
PlaylistFree(ptr) ==
    /\ heap[ptr].allocated /\ heap[ptr].held /\ playlist_cached # ptr
    /\ heap' = playlist_free(heap, ptr)
    /\ last' = Last("playlist_free", ZeroEntry, ptr, TRUE, 0)
    /\ UNCHANGED <<pl, disk, WIN32, pe, playlist_cached, pCtx>>

InitCached(config, c) ==
    /\ malloc(heap) # 0
    /\ \E r \in {playlist_init_cached(config, disk, c.parser_ok, c.allocs, c.open_ok,
                                       c.writer_ok)} :
          /\ pl' = IF r.ok THEN r.pl ELSE pl
          /\ disk' = r.disk
          /\ heap' = IF r.ok THEN Allocated(heap, malloc(heap), FALSE) ELSE heap
          /\ playlist_cached' = IF r.ok THEN malloc(heap) ELSE playlist_cached
          /\ last' = [Last("init_cached", ZeroEntry, 0, r.ok, 0) EXCEPT !.io = r.io, !.c = c]
    /\ UNCHANGED <<WIN32, pe, pCtx>>

\* ptr: NULL, or a playlist that its holder has not freed
SetCachedExternal(ptr) ==
    /\ ptr # 0 => heap[ptr].allocated /\ heap[ptr].held
    /\ LET r == playlist_set_cached_external(playlist_cached, heap, ptr)
       IN /\ playlist_cached' = r.playlist_cached
          /\ heap' = r.heap
    /\ pl' = IF ptr # 0 /\ heap[ptr].newest THEN [pl EXCEPT !.cached_external = TRUE] ELSE pl
    /\ last' = Last("set_cached_external", ZeroEntry, ptr, TRUE, 0)
    /\ UNCHANGED <<disk, WIN32, pe, pCtx>>

FreeCached ==
    /\ LET r == playlist_free_cached(playlist_cached, heap)
       IN /\ playlist_cached' = r.playlist_cached
          /\ heap' = r.heap
    /\ last' = Last("free_cached", ZeroEntry, 0, TRUE, 0)
    /\ UNCHANGED <<pl, disk, WIN32, pe, pCtx>>

WriteRuntimeFile(open_ok, writer_ok) ==
    /\ \E r \in {playlist_write_runtime_file(pl, disk, open_ok, writer_ok)} :
          /\ pl' = r.pl
          /\ disk' = r.disk
          /\ last' = [Last("write_runtime_file", ZeroEntry, 0, TRUE, 0) EXCEPT !.io = r.io]
    /\ UNCHANGED <<WIN32, pe, playlist_cached, heap, pCtx>>

\* playlists are created, cached as owned or as externally owned, and freed
NextCached ==
    \/ \E config \in HolderConfigs, c \in Conditions : PlaylistInit(config, c)
    \/ \E ptr \in 1..MaxObjects : PlaylistFree(ptr)
    \/ InitCached(Config(MaxItems, FALSE), NoFailure)
    \/ \E ptr \in 0..MaxObjects : SetCachedExternal(ptr)
    \/ FreeCached

SpecCached == InitCachedSlot /\ [][NextCached]_vars

\* sessions that free what they replace: playlists are loaded, changed and
\* saved, under every condition
NextSave ==
    \/ playlist_cached = 0 /\ \E config \in CachedConfigs, c \in Conditions : InitCached(config, c)
    \/ FreeCached
    \/ Live /\ Push(EntryBrace, FALSE)
    \/ Live /\ \E open_ok, writer_ok \in BOOLEAN : WriteFile(open_ok, writer_ok)
    \/ Live /\ \E open_ok, writer_ok \in BOOLEAN : WriteRuntimeFile(open_ok, writer_ok)

SpecSave == InitCachedSlot /\ [][NextSave]_vars

----------------------------------------------------------------------------
(* A content directory that has moved: the file was saved under the base    *)
(* content directory OldBase, or under none, and is loaded with autofix and *)
(* the base content directory NewBase.                                      *)

OldBase == <<"/", "old">>

NewBase == <<"/", "new">>

\* content inside and outside the old directory, with the delimiters of
\* either file system; subsystem content with a ROM on each side; content
\* without a content path
MovedEntries ==
    {Entry(OldBase \o <<"/", "a", ".rom">>, Core1),
     Entry(<<"/", "x", "/", "a", ".rom">>, Core1),
     Entry(OldBase \o <<"\\", "b", ".rom">>, Core1),
     [Entry(OldBase \o <<"/", "s", ".rom">>, Core1) EXCEPT
         !.subsystem_ident = Str(<<"s">>), !.subsystem_name = Str(<<"n">>),
         !.subsystem_roms = StrList(<<OldBase \o <<"/", "a", ".rom">>,
                                      <<"/", "x", "/", "a", ".rom">>>>)],
     [Entry(<<>>, Core1) EXCEPT
         !.subsystem_ident = Str(<<"s">>), !.subsystem_name = Str(<<"n">>),
         !.subsystem_roms = StrList(<<OldBase \o <<"/", "a", ".rom">>>>)]}

\* the files of an earlier session: one or two entries, saved under the old
\* directory, under the new one, or without a base content directory
MovedFiles ==
    {StructuredFile(WriteJSON([NewPlaylist(Config(MaxItems, FALSE)) EXCEPT
                                  !.entries = es,
                                  !.base_content_directory = marker]), FALSE) :
        es \in {<<e>> : e \in MovedEntries}
               \cup {<<e1, e2>> : e1 \in MovedEntries, e2 \in MovedEntries},
        marker \in {NULL, Str(OldBase), Str(NewBase)}}

InitAutofix ==
    /\ WIN32 = FALSE
    /\ pe = [a |-> <<>>, b |-> <<>>, fuzzy |-> FALSE, result |-> FALSE]
    /\ playlist_cached = 0
    /\ heap = <<>>
    /\ pCtx = NoParse
    /\ disk \in MovedFiles
    /\ pl = NewPlaylist(playlist_config_set_base_content_directory(
                            Config(MaxItems, FALSE), NewBase))
    /\ last = FirstCall

NextAutofix == \E capacity \in 1..MaxItems : Load(capacity)

SpecAutofix == InitAutofix /\ [][NextAutofix]_vars

----------------------------------------------------------------------------
(* Legacy playlists with metadata: a session has filled a playlist of up to *)
(* MaxItems entries and set its metadata; it saves the playlist in the      *)
(* legacy format, and later sessions load the file.                         *)

\* the default core of a playlist: none, the path alone, or path and name
WithDefaultCore(p, kind) ==
    CASE kind = "none" -> p
      [] kind = "path" -> playlist_set_default_core_path(p, Str(Core1))
      [] OTHER -> playlist_set_default_core_name(
                     playlist_set_default_core_path(p, Str(Core1)), Str(<<"c1">>))

LegacyPlaylists ==
    {playlist_set_sort_mode(
        playlist_set_thumbnail_mode(
           playlist_set_thumbnail_mode(
              playlist_set_label_display_mode(
                 WithDefaultCore(
                    PushAll(NewPlaylist(Config(MaxItems, TRUE)),
                            SubSeq(<<EntryAG, EntryC, EntryB, EntryS>>, 1, k)),
                    kind),
                 label_display_mode),
              PLAYLIST_THUMBNAIL_RIGHT, right),
           PLAYLIST_THUMBNAIL_LEFT, left),
        sort_mode) :
        k \in 0..MaxItems, kind \in {"none", "path", "both"},
        label_display_mode \in {LABEL_DISPLAY_MODE_DEFAULT,
                                LABEL_DISPLAY_MODE_KEEP_REGION_AND_DISC_INDEX},
        right \in {PLAYLIST_THUMBNAIL_MODE_DEFAULT, PLAYLIST_THUMBNAIL_MODE_BOXARTS},
        left \in {PLAYLIST_THUMBNAIL_MODE_DEFAULT, PLAYLIST_THUMBNAIL_MODE_BOXARTS},
        sort_mode \in {PLAYLIST_SORT_MODE_DEFAULT, PLAYLIST_SORT_MODE_OFF}}

InitLegacy ==
    /\ WIN32 = FALSE
    /\ pe = [a |-> <<>>, b |-> <<>>, fuzzy |-> FALSE, result |-> FALSE]
    /\ playlist_cached = 0
    /\ heap = <<>>
    /\ pCtx = NoParse
    /\ disk = NoFile
    /\ pl \in LegacyPlaylists
    /\ last = FirstCall

NextLegacy ==
    \/ last.op = "init" /\ WriteFile(TRUE, TRUE)
    \/ last.op \in {"write_file", "load"} /\ \E capacity \in 0..MaxItems : Load(capacity)

SpecLegacy == InitLegacy /\ [][NextLegacy]_vars

\* the numbers a file can hold for a mode: the default, the last enumerator
\* and the number after it
ModeNumbers(last_enumerator) == {0, last_enumerator, last_enumerator + 1}

\* the metadata of a file as another program, or an editor, can have left it
ModeRecords ==
    {[NewPlaylist(Config(MaxItems, FALSE)) EXCEPT
         !.entries = SubSeq(<<NewEntry(EntryA, Str(PathA), Str(Core1), Str(<<"c1">>))>>, 1, k),
         !.label_display_mode = label_display_mode,
         !.right_thumbnail_mode = right,
         !.left_thumbnail_mode = left,
         !.sort_mode = sort_mode] :
        k \in 0..1,
        label_display_mode \in ModeNumbers(LABEL_DISPLAY_MODE_KEEP_REGION_AND_DISC_INDEX),
        right \in ModeNumbers(PLAYLIST_THUMBNAIL_MODE_BOXARTS),
        left \in ModeNumbers(PLAYLIST_THUMBNAIL_MODE_BOXARTS),
        sort_mode \in ModeNumbers(PLAYLIST_SORT_MODE_OFF)}

\* the same metadata in the two on-disk formats
ModeFiles ==
    {StructuredFile(WriteJSON(p), FALSE) : p \in ModeRecords}
    \cup {LegacyFile(WriteLegacy(p), FALSE) : p \in ModeRecords}

InitModes ==
    /\ WIN32 = FALSE
    /\ pe = [a |-> <<>>, b |-> <<>>, fuzzy |-> FALSE, result |-> FALSE]
    /\ playlist_cached = 0
    /\ heap = <<>>
    /\ pCtx = NoParse
    /\ disk \in ModeFiles
    /\ pl = NewPlaylist(Config(MaxItems, FALSE))
    /\ last = FirstCall

NextModes == \E capacity \in 1..MaxItems : Load(capacity)

SpecModes == InitModes /\ [][NextModes]_vars

----------------------------------------------------------------------------
(* Properties of playlist_push, playlist_delete_index and playlist_qsort *)

\* two stored entries are the same content for the same core
SameIdentity(x, y) ==
    /\ x.path = y.path /\ x.core_path = y.core_path
    /\ x.subsystem_ident = y.subsystem_ident /\ x.subsystem_name = y.subsystem_name
    /\ x.subsystem_roms = y.subsystem_roms

\* the stored entry x holds what was pushed as e, with the paths normalised
HoldsPushed(x, e) ==
    /\ OrEmpty(x.path) = path_resolve_realpath(OrEmpty(e.path))
    /\ OrEmpty(x.core_path) = RealCorePath(e.core_path).str
    /\ OrEmpty(x.label) = OrEmpty(e.label)
    /\ OrEmpty(x.crc32) = OrEmpty(e.crc32)
    /\ OrEmpty(x.db_name) = OrEmpty(e.db_name)
    /\ OrEmpty(x.subsystem_ident) = OrEmpty(e.subsystem_ident)
    /\ OrEmpty(x.subsystem_name) = OrEmpty(e.subsystem_name)
    /\ x.subsystem_roms.elems = e.subsystem_roms.elems

\* the step is a call of playlist_push that found a matching entry
PushFoundMatch == last'.op = "push" /\ ~last'.fault /\ last'.hit > 0

\* e is content given by its content path and core path alone
NoSubsystem(e) ==
    /\ string_is_empty(e.subsystem_ident) /\ string_is_empty(e.subsystem_name)
    /\ ~e.subsystem_roms.ptr

\* two pushes in a row of the same (content path, core path) pair, the first
\* of which stored the entry or found it
SamePairTwice ==
    /\ last.op = "push" /\ (last.ret \/ last.hit > 0)
    /\ last'.op = "push"
    /\ last'.e.path = last.e.path /\ last'.e.core_path = last.e.core_path
    /\ NoSubsystem(last.e) /\ NoSubsystem(last'.e)

C1_Step ==
    /\ (PushFoundMatch /\ ~string_is_empty(last'.e.core_path))
          => /\ Len(pl'.entries) = Len(pl.entries)
             /\ SameIdentity(pl'.entries[1], pl.entries[last'.hit])
    /\ SamePairTwice
          => /\ Len(pl'.entries) = Len(pl.entries)
             /\ last'.hit = 1

C2_SizeWithinCapacity == Len(pl.entries) <= pl.config.capacity

\* playlist_push_runtime added an entry to a playlist that was full
C2_Witness ==
    /\ last.op = "push_runtime" /\ last.ret /\ last.hit = 0
    /\ last.len = MaxCapacity
    /\ Len(pl.entries) = pl.config.capacity

\* the step is a playlist_push into a full playlist of an entry that matches none
PushIntoFull ==
    /\ last'.op = "push" /\ ~last'.fault /\ last'.hit = 0
    /\ pl.config.capacity >= 1 /\ Len(pl.entries) = pl.config.capacity

\* the last entry is gone, the others moved back by one, the new one is in front
EvictsLast ==
    LET N == pl.config.capacity
    IN /\ Len(pl'.entries) = N
       /\ HoldsPushed(pl'.entries[1], last'.e)
       /\ SubSeq(pl'.entries, 2, N) = SubSeq(pl.entries, 1, N - 1)
       /\ pl'.modified
       /\ last'.ret

\* playlist_push can store e: it has a core path, and a core name of its own
\* or one that its core path gives
Storable(e) ==
    /\ ~string_is_empty(e.core_path)
    /\ ~string_is_empty(RealCorePath(e.core_path))
    /\ \/ ~string_is_empty(e.core_name)
       \/ fill_pathname_base_noext(RealCorePath(e.core_path).str) # <<>>

\* C3 as stated: every push into a full playlist of an entry that matches
\* none evicts the last entry, puts the new one at index 0 and returns true.
C3_AnyEntryEvicts == [][PushIntoFull => EvictsLast]_vars

\* C3: when the playlist holds exactly N = capacity >= 1 entries and
\* playlist_push is called with an entry that matches none and that has a core
\* path and a core name (own or derived), the entry at index N-1 is removed,
\* the new entry is at index 0, the former entries 0..N-2 are at 1..N-1 in the
\* same order, the size stays N, modified is true and the call returns true.
C3_StorableEntryEvicts == [][(PushIntoFull /\ Storable(last'.e)) => EvictsLast]_vars

\* a push into a full playlist of MaxCapacity entries evicted the last one
C3_Witness ==
    /\ last.op = "push" /\ last.hit = 0 /\ last.ret
    /\ last.len = MaxCapacity /\ pl.config.capacity = MaxCapacity
    /\ HoldsPushed(pl.entries[1], last.e)

BackfillFields == {"label", "crc32", "db_name"}

C4_Step ==
    PushFoundMatch =>
        LET x == pl.entries[last'.hit]
            y == pl'.entries[1]
            e == last'.e
        IN /\ SameIdentity(y, x)
           /\ Len(pl'.entries) = Len(pl.entries)
           /\ RemoveAt(pl'.entries, 1) = RemoveAt(pl.entries, last'.hit)
           /\ \A f \in BackfillFields :
                 /\ (~x[f].ptr /\ ~string_is_empty(e[f]))
                       => (y[f] = Str(e[f].str) /\ pl'.modified /\ last'.ret)
                 /\ x[f].ptr => y[f] = x[f]

\* C4: when playlist_push matches an existing entry whose label, crc32 or
\* db_name is unset (NULL) and the pushed entry has a non-empty value for it,
\* the existing entry receives the value, the size is unchanged, the entry is
\* at index 0, modified is true and the call returns true, also when the
\* match was at index 0; a field that is set is never overwritten by a push.
C4_PushBackfills == [][C4_Step]_vars

\* a push of EntryAG matched the entry at index 0 and filled in its label
C4_Witness ==
    /\ last.op = "push" /\ last.hit = 1 /\ last.ret
    /\ last.e = EntryAG
    /\ pl.entries[1].label = Str(<<"G">>)
    /\ Len(pl.entries) = last.len
    /\ pl.modified

C8_Step ==
    (last'.op = "delete_index" /\ last'.idx < Len(pl.entries)) =>
        LET path == pl.entries[last'.idx + 1].path
            real_path == Str(path_resolve_realpath(path.str))
            others == (1..Len(pl.entries)) \ {last'.idx + 1}
        IN (~\E j \in others : playlist_path_equal(real_path, pl.entries[j].path, pl.config))
              => /\ playlist_get_index_by_path(pl', path) = 0
                 /\ ~playlist_entry_exists(pl', path)

\* C8: after playlist_delete_index(i) with a valid i, playlist_get_index_by_path
\* and playlist_entry_exists with the deleted entry's content path find no
\* entry, unless another entry has a content path that is path-equal to it.
C8_DeletedPathNotFound == [][C8_Step]_vars

\* the first of several entries was deleted and its path is no longer found
C8_Witness ==
    /\ last.op = "delete_index" /\ last.idx = 0 /\ last.len >= 2
    /\ Len(pl.entries) = last.len - 1
    /\ ~playlist_entry_exists(pl, Str(PathA))
    /\ playlist_entry_exists(pl, Str(PathB))

\* C10: with sort_mode off, playlist_qsort leaves the sequence of entries,
\* every field of every entry and the modified flag as they were.
C10_SortOffChangesNothing ==
    [][(last'.op = "qsort" /\ pl.sort_mode = PLAYLIST_SORT_MODE_OFF) => pl' = pl]_vars

\* playlist_qsort was called with sort_mode off on entries that are out of order
C10_Witness ==
    /\ last.op = "qsort" /\ pl.sort_mode = PLAYLIST_SORT_MODE_OFF
    /\ Len(pl.entries) >= 2
    /\ playlist_qsort_func(pl.entries[1], pl.entries[2]) > 0

----------------------------------------------------------------------------
(* Properties of saving and loading *)

\* the step loads, into a playlist of capacity last'.idx, the file that the
\* step before wrote from pl
LoadsWritten ==
    /\ last.op = "write_file" /\ Written(disk)
    /\ last'.op = "load"

\* the persisted fields of two entries are equal; a string that is not set
\* and an empty string are the same value, and so are no list and an empty list
SameText(x, y) ==
    /\ OrEmpty(x.path) = OrEmpty(y.path)
    /\ OrEmpty(x.label) = OrEmpty(y.label)
    /\ OrEmpty(x.core_path) = OrEmpty(y.core_path)
    /\ OrEmpty(x.core_name) = OrEmpty(y.core_name)
    /\ OrEmpty(x.crc32) = OrEmpty(y.crc32)
    /\ OrEmpty(x.db_name) = OrEmpty(y.db_name)

SameStored(x, y) ==
    /\ SameText(x, y)
    /\ OrEmpty(x.subsystem_ident) = OrEmpty(y.subsystem_ident)
    /\ OrEmpty(x.subsystem_name) = OrEmpty(y.subsystem_name)
    /\ x.subsystem_roms.elems = y.subsystem_roms.elems

\* the loaded entries are the written ones, compared by Same
RoundTrip(Same(_, _)) ==
    /\ Len(pl'.entries) = Len(pl.entries)
    /\ \A i \in 1..Len(pl.entries) : Same(pl'.entries[i], pl.entries[i])

CorePathsSet(p) == \A i \in 1..Len(p.entries) : ~string_is_empty(p.entries[i].core_path)

NoEmptyRomPath(p) ==
    \A i \in 1..Len(p.entries) :
       \A j \in 1..Len(p.entries[i].subsystem_roms.elems) :
          p.entries[i].subsystem_roms.elems[j] # <<>>

\* what the same file gives a playlist that has room for every item
FullLoad ==
    playlist_init([pl.config EXCEPT !.capacity = Len(pl.entries)], disk,
                  TRUE, EnoughAllocs, TRUE, TRUE).pl

C5_Step ==
    (LoadsWritten /\ disk.structured /\ last'.idx < Len(pl.entries)) =>
        LET N == last'.idx
        IN /\ Len(pl'.entries) = N
           /\ pl'.entries = SubSeq(FullLoad.entries, 1, N)
           /\ \A i \in 1..N : SameText(pl'.entries[i], pl.entries[i])
           /\ pl'.slot0 = ZeroEntry
           /\ pl'.modified
           /\ last'.ret

\* C5: loading a structured file whose items array holds k entries into a
\* playlist of capacity N < k yields exactly N entries, the first N items of
\* the file in file order, and modified = true; nothing of the items after the
\* N-th is held by the playlist.
C5_LoadStopsAtCapacity == [][C5_Step]_vars

\* a structured file of MaxItems items was loaded with room for one item less
C5_Witness ==
    /\ last.op = "load" /\ disk.structured /\ Written(disk)
    /\ last.idx = MaxItems - 1 /\ last.idx >= 1
    /\ Len(pl.entries) = last.idx
    /\ pl.modified

\* C6 as stated: every playlist whose entries have core paths comes back from
\* the structured format with the same entries.
C6_EveryPlaylistRoundTrips ==
    [][(LoadsWritten /\ disk.structured /\ Len(pl.entries) <= last'.idx /\ CorePathsSet(pl))
          => RoundTrip(SameStored)]_vars

\* C6: for every playlist whose entries all have non-empty core paths, whose
\* ROM lists hold no empty path and whose size does not exceed the capacity
\* used for reading, writing it in the structured format and loading the file
\* yields the same number of entries in the same order with equal path,
\* label, core_path, core_name, crc32, db_name, subsystem_ident,
\* subsystem_name and ROM list (a field that is not set equals an empty one).
C6_StructuredRoundTrip ==
    [][(LoadsWritten /\ disk.structured /\ Len(pl.entries) <= last'.idx
          /\ CorePathsSet(pl) /\ NoEmptyRomPath(pl))
          => RoundTrip(SameStored)]_vars

\* a full playlist with subsystem content and a ROM list came back from a
\* structured file
C6_Witness ==
    /\ last.op = "load" /\ disk.structured /\ Written(disk)
    /\ Len(pl.entries) = MaxItems
    /\ NoEmptyRomPath(pl)
    /\ \E i \in 1..Len(pl.entries) :
          /\ pl.entries[i].subsystem_roms.elems = <<PathA>>
          /\ pl.entries[i].subsystem_ident = Str(<<"s">>)
    /\ \E i \in 1..Len(pl.entries) : pl.entries[i].crc32 = Str(<<"c">>)

\* C7: for every playlist whose size does not exceed the capacity used for
\* reading, writing it in the legacy format and loading the file yields the
\* same number of entries in the same order with equal path, label,
\* core_path, core_name, crc32 and db_name.
C7_LegacyRoundTrip ==
    [][(LoadsWritten /\ ~disk.structured /\ Len(pl.entries) <= last'.idx)
          => RoundTrip(SameText)]_vars

----------------------------------------------------------------------------
(* Properties of playlist_path_equal *)

\* the call compared the bare archive path of archive with a file inside arc
ArchiveAgainstInner(archive, arc) ==
    \E inner \in InnerFiles :
       \/ pe.a = archive /\ pe.b = InArchive(arc, inner)
       \/ pe.b = archive /\ pe.a = InArchive(arc, inner)

\* C9: playlist_path_equal of a bare archive path A and a path A + archive
\* delimiter + inner file is true, in either argument order, when
\* fuzzy_archive_match is enabled and false when it is disabled; when the
\* archive part before the delimiter differs from A (by the comparison of the
\* platform) the result is false in both settings.
C9_FuzzyArchiveMatch ==
    \A archive \in Archives, arc \in Archives :
       ArchiveAgainstInner(archive, arc) =>
          pe.result = (pe.fuzzy /\ PathCompare(Str(archive), Str(arc)))

\* a bare archive path was found equal to a file inside it, the bare path
\* being the second argument
C9_Witness ==
    /\ pe.b = ArchiveA /\ pe.a = InArchive(ArchiveA, <<"r", ".rom">>)
    /\ pe.fuzzy /\ pe.result

----------------------------------------------------------------------------
(* Properties of pushes that are refused *)

\* the step is a call of playlist_push or of playlist_push_runtime
PushCall == last'.op \in {"push", "push_runtime"} /\ ~last'.fault

\* the call returned false and left the entries and the modified flag alone
Refused ==
    /\ ~last'.ret
    /\ pl'.entries = pl.entries
    /\ pl'.modified = pl.modified

\* C11: on a playlist with capacity 0, playlist_push and
\* playlist_push_runtime called with an entry that matches no existing entry
\* return false and leave the entries and the modified flag unchanged.
C11_NoPushAtCapacityZero ==
    [][(PushCall /\ pl.config.capacity = 0 /\ last'.hit = 0) => Refused]_vars

\* playlist_push_runtime was called on a playlist of capacity 0 with an entry
\* that has a core, and returned false
C11_Witness ==
    /\ last.op = "push_runtime"
    /\ last.e = EntryRuntime
    /\ pl.config.capacity = 0
    /\ last.hit = 0
    /\ ~last.ret
    /\ pl.entries = <<>>

\* C12: playlist_push and playlist_push_runtime called with an entry whose
\* core path is null or empty return false and leave the entries, their order
\* and the modified flag unchanged, for every playlist state.
C12_NoPushWithoutCorePath ==
    [][(PushCall /\ string_is_empty(last'.e.core_path)) => Refused]_vars

\* playlist_push_runtime was called with an empty, non-null core path on a
\* playlist that holds entries and has room for more
C12_Witness ==
    /\ last.op = "push_runtime"
    /\ last.e.core_path = Str(<<>>)
    /\ ~last.ret
    /\ Len(pl.entries) > 0
    /\ Len(pl.entries) < pl.config.capacity

----------------------------------------------------------------------------
(* Properties of the modified flag *)

\* what playlist_write_file would send to the file for playlist p
Persisted(p) == IF p.config.old_format THEN WriteLegacy(p) ELSE WriteJSON(p)

\* the operations C13 names
MutatingOps ==
    {"push", "push_runtime", "update", "delete_index", "delete_by_path",
     "clear", "qsort", "set_sort_mode", "set_default_core_name"}

\* C13: every operation on a playlist that changes state which
\* playlist_write_file would persist (the set of entries, their order, their
\* persisted fields, or the playlist metadata) leaves modified = true: this
\* holds for playlist_push, playlist_push_runtime, playlist_update,
\* playlist_delete_index, playlist_delete_by_path, playlist_clear,
\* playlist_qsort and the metadata setters.
C13_MutationSetsModified ==
    [][(last'.op \in MutatingOps /\ Persisted(pl') # Persisted(pl)) => pl'.modified]_vars

----------------------------------------------------------------------------
(* Properties of saving *)

\* the step is a call of playlist_write_file
WriteFileCall == last'.op = "write_file"

\* the call left the file alone: it was neither opened nor written
WroteNothing == last'.io = <<>> /\ disk' = disk

\* C14: playlist_write_file writes nothing when modified is false and the
\* playlist's old_format and compressed flags equal the configured ones;
\* after a call in which the file was opened and written, modified is false
\* and old_format equals config.old_format, so an immediately repeated
\* playlist_write_file with no mutation in between writes nothing.
C14_Step ==
    /\ (WriteFileCall /\ ~pl.modified /\ pl.old_format = pl.config.old_format
           /\ pl.compressed = pl.config.compress) => WroteNothing
    /\ (WriteFileCall /\ last'.io = <<"open", "write", "close">>)
          => ~pl'.modified /\ pl'.old_format = pl'.config.old_format
    /\ (WriteFileCall /\ last.op = "write_file" /\ last.io = <<"open", "write", "close">>)
          => WroteNothing

C14_CleanPlaylistIsNotRewritten == [][C14_Step]_vars

\* a playlist with an entry was saved in the legacy format and
\* playlist_write_file then left the file alone
C14_Witness ==
    /\ last.op = "write_file"
    /\ last.io = <<>>
    /\ Len(pl.entries) > 0
    /\ ~pl.modified
    /\ pl.old_format
    /\ disk = LegacyFile(WriteLegacy(pl), pl.config.compress)

\* the step loads a file that playlist_write_file wrote in the legacy format
\* and that the reader takes for a legacy file, with more entries than the
\* capacity of the loading session (last'.idx)
LoadsLongLegacyFile ==
    /\ LoadsWritten
    /\ ~disk.structured
    /\ FirstGraph(disk) # "{"
    /\ Len(pl.entries) > last'.idx

\* C15: loading a legacy-format file that holds more entries than the
\* playlist capacity drops the excess entries and leaves the playlist marked
\* modified, so that the next save prunes the excess on disk.
C15_LegacyLoadMarksExcess ==
    [][LoadsLongLegacyFile => (Len(pl'.entries) = last'.idx /\ pl'.modified)]_vars

----------------------------------------------------------------------------
(* Properties of playlist_init and of the cached slot *)

\* the metadata of p other than the base content directory are those that
\* playlist_init sets before it reads the file
DefaultMetadata(p) ==
    /\ p.default_core_path = NULL
    /\ p.default_core_name = NULL
    /\ p.label_display_mode = LABEL_DISPLAY_MODE_DEFAULT
    /\ p.right_thumbnail_mode = PLAYLIST_THUMBNAIL_MODE_DEFAULT
    /\ p.left_thumbnail_mode = PLAYLIST_THUMBNAIL_MODE_DEFAULT
    /\ p.sort_mode = PLAYLIST_SORT_MODE_DEFAULT

\* the step is a call of playlist_init with no file at config.path
InitWithoutFile == last'.op = "playlist_init" /\ ~disk.exists

\* C16 as stated: playlist_init with a configuration whose file does not
\* exist returns a valid playlist with zero entries, modified = false and
\* default metadata; it is not reported as an error.
C16_MissingFileStartsEmpty ==
    [][InitWithoutFile =>
          /\ last'.ret
          /\ pl'.entries = <<>>
          /\ ~pl'.modified
          /\ DefaultMetadata(pl') /\ pl'.base_content_directory = NULL]_vars

\* C16: playlist_init with a configuration whose file does not exist returns
\* a valid playlist with zero entries and is not reported as an error.  With
\* autofix disabled the playlist has modified = false and default metadata.
\* With autofix enabled the metadata are the default ones except for the base
\* content directory, which is the configured one, the playlist is saved, and
\* modified is false exactly when that save wrote the file.
C16_MissingFileStartsEmptyUnlessAutofix ==
    [][InitWithoutFile =>
          /\ last'.ret
          /\ pl'.entries = <<>>
          /\ DefaultMetadata(pl')
          /\ IF pl'.config.autofix_paths
             THEN /\ pl'.base_content_directory = Str(pl'.config.base_content_directory)
                  /\ pl'.modified = (last'.io # <<"open", "write", "close">>)
             ELSE /\ pl'.base_content_directory = NULL
                  /\ ~pl'.modified
                  /\ ~disk'.exists]_vars

\* playlist_init found no file, autofix being disabled, and opened none
C16_Witness ==
    /\ last.op = "playlist_init"
    /\ last.ret
    /\ last.io = <<>>
    /\ ~disk.exists
    /\ ~pl.config.autofix_paths
    /\ pl.entries = <<>>
    /\ Live

\* the step is a call of playlist_init_cached that found a file and returned
\* true
LoadsCached == last'.op = "init_cached" /\ last'.ret /\ disk.exists

\* the format or the compression of the file is not the configured one
\* (pl'.config is the configuration the call was given)
OnDiskDiffers ==
    \/ Written(disk) /\ disk.structured = pl'.config.old_format
    \/ disk.compressed # pl'.config.compress

\* the file has content, in the configured format and compression (a file
\* without content has no format)
OnDiskMatches ==
    /\ Written(disk)
    /\ disk.structured = ~pl'.config.old_format
    /\ disk.compressed = pl'.config.compress

\* C17: when playlist_init_cached loads a file whose on-disk format (legacy
\* or structured) or compression state differs from the configured one, the
\* file is rewritten during that call, and afterwards (the file being
\* writable) the playlist's old_format flag equals config.old_format and its
\* compressed flag equals the state of the written file; when the on-disk
\* state already matches and no entry was dropped, no write happens.
C17_Step ==
    /\ (LoadsCached /\ OnDiskDiffers /\ last'.c.open_ok /\ last'.c.writer_ok)
          => /\ last'.io = <<"open", "read", "close", "open", "write", "close">>
             /\ pl'.old_format = pl'.config.old_format
             /\ pl'.compressed = disk'.compressed
    /\ (LoadsCached /\ OnDiskMatches /\ ~pl'.modified)
          => /\ last'.io = <<"open", "read", "close">>
             /\ disk' = disk

C17_FormatMigrationOnLoad == [][C17_Step]_vars

\* the step is a call that replaces or clears the cached slot, and the slot
\* held a playlist before it
ReplacesCached ==
    /\ last'.op \in {"init_cached", "set_cached_external", "free_cached"}
    /\ last'.ret
    /\ playlist_cached # 0

\* C18: whenever the cached slot is replaced or cleared (by
\* playlist_init_cached, playlist_set_cached_external or
\* playlist_free_cached), the playlist that was in the slot before is freed
\* if and only if it was not marked externally owned: an externally owned
\* playlist is never freed by these operations, an owned one is never left
\* both unreferenced and unfreed, and after playlist_free_cached the slot is
\* empty.
C18_Step ==
    /\ ReplacesCached
          => (~heap'[playlist_cached].allocated <=> ~heap[playlist_cached].cached_external)
    /\ last'.op = "free_cached" => playlist_cached' = 0

C18_ReplacedPlaylistIsFreedIffOwned == [][C18_Step]_vars

----------------------------------------------------------------------------
(* Properties of the memory of the entries *)

\* the last call was a push that inserted a new entry at index 0
Inserted == last.op \in {"push", "push_runtime"} /\ ~last.fault /\ last.ret /\ last.hit = 0

\* C19: each heap string and each subsystem ROM list is referenced by at
\* most one entry; in particular the entry that playlist_push_runtime or
\* playlist_push inserts at index 0 shares no label, core_name, crc32,
\* db_name, subsystem or path string with the entry that was at index 0
\* before.
C19_InsertedEntrySharesNoString == Inserted => last.shared = {}

----------------------------------------------------------------------------
(* Properties of the file handles *)

\* the handles that a sequence of stream calls leaves open
RECURSIVE OpenHandles(_)
OpenHandles(io) ==
    IF io = <<>> THEN 0
    ELSE (IF Head(io) = "open" THEN 1 ELSE IF Head(io) = "close" THEN -1 ELSE 0)
         + OpenHandles(Tail(io))

\* the calls that open the playlist file
FileCalls == {"playlist_init", "init_cached", "load", "write_file", "write_runtime_file"}

\* C20: after any call of playlist_init, playlist_write_file or
\* playlist_write_runtime_file returns, on the success path and on every
\* error path, no file handle opened by that call is still open.
C20_NoHandleLeftOpen == last.op \in FileCalls => OpenHandles(last.io) = 0

\* playlist_write_runtime_file opened the file and failed to create the writer
C20_Witness ==
    /\ last.op = "write_runtime_file"
    /\ last.io = <<"open", "close">>
    /\ pl.modified

----------------------------------------------------------------------------
(* Properties of playlist_push_runtime and playlist_update_runtime *)

\* the step is a call of playlist_push_runtime with a core path
PushRuntimeCall == last'.op = "push_runtime" /\ ~string_is_empty(last'.e.core_path)

\* entries[i] has the content path of the pushed entry, or both have none,
\* and it has the core path of the pushed entry
RuntimeMatches ==
    {i \in 1..Len(pl.entries) :
        /\ \/ string_is_empty(last'.e.path) /\ string_is_empty(pl.entries[i].path)
           \/ playlist_path_equal(RealPath(last'.e.path), pl.entries[i].path, pl.config)
        /\ playlist_core_path_equal(RealCorePath(last'.e.core_path),
                                    pl.entries[i].core_path, pl.config)}

\* the entry at index 0 after the step has the paths and the runtime values
\* of the pushed entry
RuntimeEntryInFront ==
    /\ pl'.entries[1].path = DupNonEmpty(RealPath(last'.e.path))
    /\ pl'.entries[1].core_path = DupNonEmpty(RealCorePath(last'.e.core_path))
    /\ \A f \in {"runtime_status", "runtime_hours", "runtime_minutes", "runtime_seconds",
                 "last_played_year", "last_played_month", "last_played_day",
                 "last_played_hour", "last_played_minute", "last_played_second"} :
          pl'.entries[1][f] = last'.e[f]

\* C21: playlist_push_runtime decides whether an existing entry matches by
\* content path equality (or both content paths empty) and core path
\* equality only, ignoring label and subsystem fields, and then follows the
\* policy of playlist_push: a match at index 0 returns false without change,
\* a match at index i > 0 is moved to index 0, and without a match it fails
\* when capacity is 0, evicts the last entry when the playlist is at
\* capacity, and inserts the new entry at index 0.  (It also fails, without
\* change, when the buffer cannot grow.)
C21_Step ==
    PushRuntimeCall =>
        IF RuntimeMatches # {}
        THEN LET i == CHOOSE k \in RuntimeMatches : \A j \in RuntimeMatches : k <= j
             IN IF i = 1 THEN ~last'.ret /\ pl' = pl
                ELSE /\ last'.ret
                     /\ pl'.entries = <<pl.entries[i]>> \o SubSeq(pl.entries, 1, i - 1)
                                      \o SubSeq(pl.entries, i + 1, Len(pl.entries))
                     /\ pl'.modified
        ELSE IF pl.config.capacity = 0 THEN ~last'.ret /\ pl' = pl
        ELSE \/ ~last'.ret /\ pl' = pl /\ Len(pl.entries) < pl.config.capacity
             \/ /\ last'.ret
                /\ Tail(pl'.entries) =
                      IF Len(pl.entries) = pl.config.capacity
                      THEN SubSeq(pl.entries, 1, Len(pl.entries) - 1)
                      ELSE pl.entries
                /\ RuntimeEntryInFront
                /\ pl'.modified

C21_PushRuntimeMatchesByPaths == [][C21_Step]_vars

\* a stored entry with a label or with subsystem fields was a match at an
\* index greater than 0 and is in front now
C21_Witness ==
    /\ last.op = "push_runtime" /\ last.ret /\ last.hit > 1
    /\ Len(pl.entries) > 1
    /\ ~string_is_empty(pl.entries[1].subsystem_ident) \/ ~string_is_empty(pl.entries[1].label)
    /\ string_is_empty(last.e.subsystem_ident) /\ string_is_empty(last.e.label)

\* the step is a call of playlist_update_runtime for an entry of the playlist
\* (last'.ret is register_update)
UpdateRuntimeCall == last'.op = "update_runtime" /\ last'.idx < Len(pl.entries)

\* a runtime or timestamp value of the update, or a string it passes, is not
\* the stored one
RuntimeFieldDiffers ==
    LET entry == pl.entries[last'.idx + 1]
    IN \/ \E f \in RuntimeNumFields : last'.e[f] # entry[f]
       \/ \E f \in RuntimeStrFields : last'.e[f].ptr /\ last'.e[f] # entry[f]

\* C22: playlist_update_runtime called with register_update = false never
\* changes the modified flag, whatever fields it changes; called with
\* register_update = true it sets modified to true when at least one field
\* differs from the stored one and leaves modified unchanged when none
\* differs.
C22_Step ==
    UpdateRuntimeCall =>
        IF last'.ret /\ RuntimeFieldDiffers THEN pl'.modified
        ELSE pl'.modified = pl.modified

C22_RegisterUpdateGatesModified == [][C22_Step]_vars

----------------------------------------------------------------------------
(* Properties of playlist_delete_by_path and playlist_delete_index *)

\* entry x has a content path that is path-equal to the search path of the
\* step (last'.e.path)
PathEqualToSearch(x) ==
    playlist_path_equal(Str(path_resolve_realpath(last'.e.path.str)), x.path, pl.config)

\* the entries that are not path-equal to the search path, in their order
NotEqualToSearch == SelectSeq(pl.entries, LAMBDA x : ~PathEqualToSearch(x))

\* C23: for every playlist and non-empty search path p,
\* playlist_delete_by_path(p) terminates, and after it returns no remaining
\* entry has a content path that is path-equal to p, while every entry that
\* was not path-equal to p is still present, in its original relative order.
C23_Step ==
    (last'.op = "delete_by_path" /\ ~string_is_empty(last'.e.path)) =>
        /\ \A i \in 1..Len(pl'.entries) : ~PathEqualToSearch(pl'.entries[i])
        /\ pl'.entries = NotEqualToSearch

C23_DeleteByPathRemovesEveryMatch == [][C23_Step]_vars

\* two entries next to each other had the search path, and both are gone
C23_Witness ==
    /\ last.op = "delete_by_path"
    /\ last.len = Len(pl.entries) + 2

----------------------------------------------------------------------------
(* Properties of playlist_entries_are_equal *)

\* C24: for all entries a and b without subsystem fields (including entries
\* with an empty content path), playlist_entries_are_equal(a, b) is true
\* exactly when pushing a onto a playlist that contains only b is treated as
\* a match of b.
C24_EntriesEqualIsPushMatch ==
    (last.op = "entries_are_equal" /\ NoSubsystem(last.e) /\ NoSubsystem(pl.entries[1]))
        => (last.ret <=> last.hit = 1)

----------------------------------------------------------------------------
(* Properties of a load that fails *)

\* the step loads a file that was damaged after the playlist pl was saved in it
LoadsDamaged == last.op = "damage" /\ last'.op = "load"

\* the items of the file that are complete: the objects closed before the
\* point of failure
CompleteItems == Cardinality({i \in 1..Len(disk.events) : disk.events[i].t = "EO"})

\* C25: when the structured-format parse fails on malformed input after some
\* items were completely parsed, playlist_init still returns a playlist, and
\* that playlist contains exactly the entries that were completed before the
\* failure point (as many as the capacity allows), in file order; the reader
\* does not roll them back.
C25_Step ==
    LoadsDamaged =>
        LET n == IF CompleteItems < last'.idx THEN CompleteItems ELSE last'.idx
        IN /\ last'.ret
           /\ Len(pl'.entries) = n
           /\ \A i \in 1..n : SameStored(pl'.entries[i], pl.entries[i])

C25_FailedParseKeepsCompleteEntries == [][C25_Step]_vars

\* a file of several items failed after the first, which the playlist holds
C25_Witness ==
    /\ last.op = "load" /\ last.ret /\ last.idx = MaxItems
    /\ disk.structured /\ disk.events # <<>>
    /\ disk.events[Len(disk.events)].t = "ERR"
    /\ Len(pl.entries) = 1 /\ last.len > 1

----------------------------------------------------------------------------
(* Properties of a push that finds its entry *)

\* the fields that a matching push may fill in
BackfilledFields == {"label", "crc32", "db_name"}

\* C26: when playlist_push matches an existing entry at index i > 0, that
\* entry moves to index 0 (with the blanks of its label, crc32 and db_name
\* filled in), the entries formerly at indices 0..i-1 occupy indices 1..i in
\* the same order, every entry at an index greater than i is untouched, the
\* size is unchanged, modified becomes true and the call returns true.
C26_Step ==
    (last'.op = "push" /\ ~last'.fault /\ last'.hit > 1) =>
        LET i == last'.hit
        IN /\ last'.ret
           /\ pl'.modified
           /\ Len(pl'.entries) = Len(pl.entries)
           /\ \A f \in (DOMAIN ZeroEntry) \ BackfilledFields :
                 pl'.entries[1][f] = pl.entries[i][f]
           /\ \A j \in 1..(i - 1) : pl'.entries[j + 1] = pl.entries[j]
           /\ \A j \in (i + 1)..Len(pl.entries) : pl'.entries[j] = pl.entries[j]

C26_MatchMovesToFront == [][C26_Step]_vars

\* the match had two entries before it and one after it
C26_Witness ==
    /\ last.op = "push" /\ last.ret /\ last.hit = 3
    /\ last.len = 4 /\ Len(pl.entries) = 4
    /\ pl.modified

\* the step is a push that matches entries[0], and every blank of that entry
\* is a blank of the pushed entry too
FrontMatchNothingToFill ==
    /\ last'.op = "push" /\ ~last'.fault /\ last'.hit = 1
    /\ \A f \in BackfilledFields : pl.entries[1][f].ptr \/ string_is_empty(last'.e[f])

\* C27: when playlist_push matches the entry at index 0 and no label, crc32
\* or db_name is backfilled, the call returns false and leaves every entry,
\* the order and the modified flag exactly as they were (a modified flag
\* that was false stays false).
C27_FrontMatchChangesNothing ==
    [][FrontMatchNothingToFill => (~last'.ret /\ pl' = pl)]_vars

\* the entry in front was pushed again: the playlist is as playlist_init
\* loaded it, with modified false
C27_Witness ==
    /\ last.op = "push" /\ ~last.ret /\ last.hit = 1
    /\ Len(pl.entries) >= 1
    /\ ~pl.modified

\* a subsystem string is present in both entries and equal, or absent in both
SamePresence(a, b) ==
    /\ string_is_empty(a) = string_is_empty(b)
    /\ ~string_is_empty(a) => string_is_equal(a, b)

\* both entries have a ROM list, of equal length and path-equal element by
\* element, or neither has one
SameRoms(e, x) ==
    /\ e.subsystem_roms.ptr = x.subsystem_roms.ptr
    /\ e.subsystem_roms.ptr =>
          /\ Len(e.subsystem_roms.elems) = Len(x.subsystem_roms.elems)
          /\ \A j \in 1..Len(e.subsystem_roms.elems) :
                playlist_path_equal(RealPath(Str(e.subsystem_roms.elems[j])),
                                    Str(x.subsystem_roms.elems[j]), pl.config)

\* C28: playlist_push treats an existing entry as a match only if, in
\* addition to equal content and core paths, subsystem identifier, subsystem
\* name and subsystem ROM list each have the same presence or absence in the
\* pushed and the existing entry and, where present, are equal; an entry
\* pushed without a ROM list never matches an existing entry that has one.
C28_Step ==
    (last'.op = "push" /\ ~last'.fault /\ last'.hit > 0) =>
        LET x == pl.entries[last'.hit]
        IN /\ PathAndCoreEqual(pl, RealPath(last'.e.path), RealCorePath(last'.e.core_path), x)
           /\ SamePresence(last'.e.subsystem_ident, x.subsystem_ident)
           /\ SamePresence(last'.e.subsystem_name, x.subsystem_name)
           /\ SameRoms(last'.e, x)

C28_MatchNeedsSameSubsystem == [][C28_Step]_vars

DeleteIndexCall == last'.op = "delete_index"

\* C29: playlist_delete_index(i) with i below the size removes exactly the
\* entry at i, leaves the entries before i in place and moves the entries
\* after i one index down in the same order, reduces the size by one and sets
\* modified; with i greater than or equal to the size it changes nothing,
\* including the modified flag.
C29_Step ==
    /\ (DeleteIndexCall /\ last'.idx < Len(pl.entries)) =>
          /\ Len(pl'.entries) = Len(pl.entries) - 1
          /\ \A j \in 1..last'.idx : pl'.entries[j] = pl.entries[j]
          /\ \A j \in (last'.idx + 2)..Len(pl.entries) : pl'.entries[j - 1] = pl.entries[j]
          /\ pl'.modified
    /\ (DeleteIndexCall /\ last'.idx >= Len(pl.entries)) =>
          /\ pl'.entries = pl.entries
          /\ pl'.modified = pl.modified
          /\ pl' = pl /\ disk' = disk

C29_DeleteIndexRemovesOneEntry == [][C29_Step]_vars

\* the middle one of three entries was deleted
C29_Witness ==
    /\ last.op = "delete_index" /\ last.idx = 1 /\ last.len = 3
    /\ Len(pl.entries) = 2
    /\ pl.modified

----------------------------------------------------------------------------
(* Properties of the value handlers of the streaming reader *)

\* the event the reader handled last is a value of type t ("S" or "N")
AfterValue(t) == last.op = "parse" /\ Tokenize(disk)[last.idx].t = t

StringTargetsCleared ==
    pCtx.current_entry_val = NoTarget /\ pCtx.current_meta_val = ""

NumberTargetsCleared ==
    /\ pCtx.current_entry_uint_val = NoTarget
    /\ pCtx.current_meta_label_display_mode_val = ""
    /\ pCtx.current_meta_thumbnail_mode_val = ""
    /\ pCtx.current_meta_sort_mode_val = ""

HandlesValue(t) == last'.op = "parse" /\ Tokenize(disk)[last'.idx].t = t

C30_Step ==
    /\ HandlesValue("S") =>
          /\ StringTargetsCleared'
          /\ pCtx'.current_entry_uint_val = pCtx.current_entry_uint_val
          /\ pCtx'.current_meta_label_display_mode_val = pCtx.current_meta_label_display_mode_val
          /\ pCtx'.current_meta_thumbnail_mode_val = pCtx.current_meta_thumbnail_mode_val
          /\ pCtx'.current_meta_sort_mode_val = pCtx.current_meta_sort_mode_val
          /\ pCtx'.current_entry_string_list_val = pCtx.current_entry_string_list_val
    /\ HandlesValue("N") =>
          /\ NumberTargetsCleared'
          /\ pCtx'.current_entry_val = pCtx.current_entry_val
          /\ pCtx'.current_meta_val = pCtx.current_meta_val
          /\ pCtx'.current_entry_string_list_val = pCtx.current_entry_string_list_val

----------------------------------------------------------------------------
(* Properties of the reader over hand-edited files *)

\* the member names with a meaning inside an items entry
ItemVocabulary ==
    EntryStringMembers \cup EntryUintMembers
    \cup {<<"subsystem_", "ident">>, <<"subsystem_", "name">>, <<"subsystem_", "roms">>}

\* the step hands a string or a number to its handler, inside an items entry
\* and right after a member name outside the vocabulary
HandlesStrayValue ==
    /\ HandlesValue("S") \/ HandlesValue("N")
    /\ pCtx.in_items /\ pCtx.object_depth = 2 /\ pCtx.array_depth = 1
    /\ Tokenize(disk)[last'.idx - 1].t = "M"
    /\ Tokenize(disk)[last'.idx - 1].s \notin ItemVocabulary

C31_Step ==
    HandlesStrayValue =>
        /\ pCtx'.slot = pCtx.slot
        /\ pCtx'.pl.entries = pCtx.pl.entries

\* C31: in the streaming structured-format reader, for every sequence of
\* parse events, a string or number value that follows a member name outside
\* the fixed vocabulary inside an items entry is discarded: it changes no
\* field of the current entry and no field of any earlier entry.
C31_UnknownMemberValueDiscarded == [][C31_Step]_vars

\* the step hands a number to its handler at the top level, right after the
\* name of an enum member
HandlesEnumValue ==
    /\ HandlesValue("N")
    /\ pCtx.object_depth = 1 /\ pCtx.array_depth = 0
    /\ Tokenize(disk)[last'.idx - 1].t = "M"
    /\ Tokenize(disk)[last'.idx - 1].s \in EnumMembers

C32_Step ==
    HandlesEnumValue =>
        LET field == Tokenize(disk)[last'.idx - 1].s[1]
            n == Tokenize(disk)[last'.idx].n
        IN pCtx'.pl = [pCtx.pl EXCEPT ![field] = n]

\* C32: in the streaming structured-format reader, a top-level number value
\* is stored in exactly the metadata field selected by its own member name
\* (label_display_mode, right_thumbnail_mode, left_thumbnail_mode or
\* sort_mode) and in no other field, for every sequence of top-level members,
\* including sequences in which an earlier enum member carried a value of
\* another type.
C32_NumberGoesToItsOwnField == [][C32_Step]_vars

RECURSIVE ClosedItems(_, _, _)
\* how many items entries the events evs close.  stack: the containers that
\* are open, "O" an object, "items" the array under the top-level member
\* items, "A" any other array; name: the last member name of the top level
ClosedItems(evs, stack, name) ==
    IF evs = <<>> THEN 0
    ELSE LET ev == Head(evs)
             pop == SubSeq(stack, 1, Len(stack) - 1)
         IN CASE ev.t = "SO" -> ClosedItems(Tail(evs), Append(stack, "O"), name)
              [] ev.t = "SA" ->
                    ClosedItems(Tail(evs),
                                Append(stack, IF Len(stack) = 1 /\ name = <<"items">>
                                              THEN "items" ELSE "A"),
                                name)
              [] ev.t = "EO" ->
                    (IF Len(stack) = 3 /\ stack[2] = "items" THEN 1 ELSE 0)
                    + ClosedItems(Tail(evs), pop, name)
              [] ev.t = "EA" -> ClosedItems(Tail(evs), pop, name)
              [] ev.t = "M" ->
                    ClosedItems(Tail(evs), stack, IF Len(stack) = 1 THEN ev.s ELSE name)
              [] OTHER -> ClosedItems(Tail(evs), stack, name)

\* the events handled so far
Handled == SubSeq(Tokenize(disk), 1, last.idx)

Min(a, b) == IF a < b THEN a ELSE b

\* C33: during a structured-format load the visible entry count grows by
\* exactly one at each end-object event that closes an items entry while
\* capacity has not been exceeded, and at no other event; an items entry
\* whose object was started but not closed when the parse stopped is not part
\* of the playlist.
C33_CountFollowsClosedItems ==
    /\ Len(pl.entries) = Min(pl.config.capacity, ClosedItems(Handled, <<>>, <<>>))
    /\ \A j \in 1..Len(pl.entries) : pl.entries[j].path = Str(ItemPath(j))

\* the parse stopped inside the second item: only the first is in the playlist
C33_Witness ==
    /\ last.op = "parse" /\ pCtx.aborted
    /\ pCtx.object_depth = 2
    /\ ClosedItems(Handled, <<>>, <<>>) = 1
    /\ Len(pl.entries) = 1

\* the file has the metadata members after its items array
HasTrailingMetadata ==
    LET evs == Tokenize(disk)
        n == Len(TrailingMetadata)
    IN Len(evs) > n /\ SubSeq(evs, Len(evs) - n, Len(evs) - 1) = TrailingMetadata

\* the reader has met an item beyond the capacity and the parser has handed
\* over the last event of the file
ParsedBeyondCapacity ==
    /\ last.op = "parse" /\ last.idx = Len(Tokenize(disk))
    /\ pCtx.capacity_exceeded

\* C34: in a structured-format load, reaching the capacity limit inside the
\* items array does not stop the parse: top-level metadata members that
\* appear after the items array (default core path and name, base content
\* directory, display, thumbnail and sort modes) are still applied to the
\* playlist.
C34_MetadataAfterExcessItems ==
    /\ (pCtx.capacity_exceeded /\ pCtx.aborted) => Tokenize(disk)[last.idx] = Ev("ERR")
    /\ (ParsedBeyondCapacity /\ HasTrailingMetadata) =>
          /\ pl.default_core_path = Str(Core1)
          /\ pl.default_core_name = Str(<<"c1">>)
          /\ pl.base_content_directory = Str(<<"/", "base">>)
          /\ pl.label_display_mode = 1
          /\ pl.right_thumbnail_mode = 2
          /\ pl.left_thumbnail_mode = 3
          /\ pl.sort_mode = 2

\* a file with more items than the capacity was read to its end
C34_Witness ==
    /\ ParsedBeyondCapacity /\ HasTrailingMetadata
    /\ Len(pl.entries) = pl.config.capacity /\ pl.config.capacity >= 1
    /\ pl.modified
    /\ pl.sort_mode = 2

----------------------------------------------------------------------------
(* Properties of the autofix of playlist_init *)

\* playlist_init with autofix enabled returns a playlist
LoadsWithAutofix ==
    last'.op = "load" /\ last'.ret /\ pl'.config.autofix_paths

\* what playlist_read_file makes of the file, before autofix
LoadedFromFile == playlist_read_file(NewPlaylist(pl'.config), disk, TRUE, EnoughAllocs).pl

\* the old marker at the start of the path gives way to the new directory;
\* a path that does not begin with the old marker stays as it is
PrefixReplaced(path, old, new) ==
    IF Len(path) >= Len(old) /\ SubSeq(path, 1, Len(old)) = old
    THEN new \o SubSeq(path, Len(old) + 1, Len(path))
    ELSE path

\* the paths of entry x are those of entry y with the prefix replaced
PathsReplaced(x, y, old, new) ==
    /\ OrEmpty(x.path) = PrefixReplaced(OrEmpty(y.path), old, new)
    /\ x.subsystem_roms.ptr = y.subsystem_roms.ptr
    /\ Len(x.subsystem_roms.elems) = Len(y.subsystem_roms.elems)
    /\ \A j \in 1..Len(y.subsystem_roms.elems) :
          x.subsystem_roms.elems[j] = PrefixReplaced(y.subsystem_roms.elems[j], old, new)

\* C35 as stated: after playlist_init with autofix enabled (non-empty
\* configured base content directory), the playlist's base-content-directory
\* marker equals the configured directory; when the marker loaded from the
\* file was non-empty and different, every entry content path and subsystem
\* ROM path that begins with the old marker has that prefix replaced by the
\* configured directory and every other path is unchanged, and the playlist
\* is saved; when the loaded marker already equals the configured directory,
\* no path is changed and no write is triggered by autofix.
C35_StepAsStated ==
    LoadsWithAutofix =>
        LET loaded == LoadedFromFile
            old == loaded.base_content_directory
            new == pl'.config.base_content_directory
        IN /\ pl'.base_content_directory = Str(new)
           /\ (~string_is_empty(old) /\ old.str # new) =>
                 /\ Len(pl'.entries) = Len(loaded.entries)
                 /\ \A i \in 1..Len(loaded.entries) :
                       PathsReplaced(pl'.entries[i], loaded.entries[i], old.str, new)
                 /\ last'.io = <<"open", "read", "close", "open", "write", "close">>
                 /\ disk'.events = WriteJSON(pl')
           /\ (old = Str(new)) =>
                 /\ pl'.entries = loaded.entries
                 /\ last'.io = <<"open", "read", "close">>
                 /\ disk' = disk

C35_AutofixReplacesPrefix == [][C35_StepAsStated]_vars

\* every backslash of the path as a slash
WithSlashes(path) == [i \in 1..Len(path) |-> IF path[i] = "\\" THEN "/" ELSE path[i]]

\* the path rebuilt under the new directory, in the delimiters of a POSIX
\* file system; a path that does not begin with the old marker stays as it is
Rebuilt(path, old, new) ==
    IF Len(path) >= Len(old) /\ SubSeq(path, 1, Len(old)) = old
    THEN WithSlashes(new \o SubSeq(path, Len(old) + 1, Len(path)))
    ELSE path

\* entry x is entry y with its paths rebuilt; an entry without a content path
\* is left as it is, ROM paths included
PathsRebuilt(x, y, old, new) ==
    IF string_is_empty(y.path) THEN x = y
    ELSE /\ x.path.str = Rebuilt(y.path.str, old, new)
         /\ x.subsystem_roms.ptr = y.subsystem_roms.ptr
         /\ Len(x.subsystem_roms.elems) = Len(y.subsystem_roms.elems)
         /\ \A j \in 1..Len(y.subsystem_roms.elems) :
               x.subsystem_roms.elems[j] = Rebuilt(y.subsystem_roms.elems[j], old, new)

C35_Step ==
    LoadsWithAutofix =>
        LET loaded == LoadedFromFile
            old == loaded.base_content_directory
            new == pl'.config.base_content_directory
        IN /\ pl'.base_content_directory = Str(new)
           /\ (~string_is_empty(old) /\ old.str # new) =>
                 /\ Len(pl'.entries) = Len(loaded.entries)
                 /\ \A i \in 1..Len(loaded.entries) :
                       PathsRebuilt(pl'.entries[i], loaded.entries[i], old.str, new)
                 /\ last'.io = <<"open", "read", "close", "open", "write", "close">>
                 /\ disk'.events = WriteJSON(pl')
           /\ (old = Str(new)) =>
                 /\ pl'.entries = loaded.entries
                 /\ last'.io = <<"open", "read", "close">>
                 /\ disk' = disk

\* C35, amended: after playlist_init with autofix enabled (non-empty
\* configured base content directory), the playlist's base-content-directory
\* marker equals the configured directory; when the marker loaded from the
\* file was non-empty and different, in every entry that has a content path
\* the content path and every subsystem ROM path that begins with the old
\* marker is rebuilt as the configured directory followed by the rest of the
\* path, with its delimiters converted to those of the local file system
\* (every backslash becomes a slash on a POSIX file system), every other path
\* is unchanged, entries without a content path are left as they are, ROM
\* paths included, and the playlist is saved; when the loaded marker already
\* equals the configured directory, no path is changed and no write is
\* triggered by autofix.
C35_AutofixRebuildsPaths == [][C35_Step]_vars

\* a file saved under the old directory was loaded and its paths were rebuilt
C35_Witness ==
    /\ last.op = "load" /\ last.ret /\ pl.config.autofix_paths
    /\ last.io = <<"open", "read", "close", "open", "write", "close">>
    /\ pl.base_content_directory = Str(NewBase)
    /\ Len(pl.entries) = 2
    /\ pl.entries[1].path = Str(NewBase \o <<"/", "b", ".rom">>)
    /\ pl.entries[2].subsystem_roms.ptr
    /\ pl.entries[2].subsystem_roms.elems = <<NewBase \o <<"/", "a", ".rom">>, <<"/", "x", "/", "a", ".rom">>>>

----------------------------------------------------------------------------
(* Properties of the metadata of a legacy file *)

\* the metadata of the loaded playlist pl' are those of the saved playlist pl
MetadataRestored ==
    /\ (~string_is_empty(pl.default_core_path) /\ ~string_is_empty(pl.default_core_name)) =>
          /\ OrEmpty(pl'.default_core_path) = OrEmpty(pl.default_core_path)
          /\ OrEmpty(pl'.default_core_name) = OrEmpty(pl.default_core_name)
    /\ pl'.label_display_mode = pl.label_display_mode
    /\ pl'.right_thumbnail_mode = pl.right_thumbnail_mode
    /\ pl'.left_thumbnail_mode = pl.left_thumbnail_mode
    /\ pl'.sort_mode = pl.sort_mode

\* C36: loading a legacy-format file produced by the legacy writer restores
\* the playlist metadata (default core path and name when both are set,
\* label_display_mode, right and left thumbnail mode, sort_mode) for every
\* number of entries in the file from 0 up to and including the playlist
\* capacity.
C36_LegacyMetadataRestored ==
    [][(LoadsWritten /\ ~disk.structured /\ Len(pl.entries) <= last'.idx)
          => MetadataRestored]_vars

----------------------------------------------------------------------------
(* Properties of a history of pushes *)

\* the key of an entry: its content path and its core path
KeyOf(e) == <<OrEmpty(e.path), OrEmpty(e.core_path)>>

Keys(p) == [i \in 1..Len(p.entries) |-> KeyOf(p.entries[i])]

\* the keys of a push history, most recent first, after key k was pushed:
\* k, then the keys pushed before in their order, k itself left out
Touched(keys, k) == <<k>> \o SelectSeq(keys, LAMBDA x : x # k)

\* the n most recent keys of a history
MostRecent(keys, n) == SubSeq(keys, 1, Min(n, Len(keys)))

\* the most recent keys after a push are the pushed key followed by the most
\* recent keys before it: step by step, the stored keys are the N most recent
\* keys of the whole history of pushes, most recent first
C37_Step ==
    last'.op = "push" =>
        Keys(pl') = MostRecent(Touched(Keys(pl), KeyOf(last'.e)), pl.config.capacity)

\* C37: starting from an empty playlist with capacity N >= 1, after any
\* sequence of playlist_push calls whose entries are drawn from a set of
\* pairwise non-matching (content path, core path) keys, the stored entries
\* are exactly the min(N, number of distinct keys pushed) most recently
\* pushed keys, ordered by the time of their last push with the most recent
\* at index 0.
C37_MostRecentlyUsedOrder == [][C37_Step]_vars

\* a key in the middle of a full playlist was pushed again and is at the front
C37_Witness ==
    /\ last.op = "push" /\ last.hit = 2
    /\ Len(pl.entries) = pl.config.capacity /\ pl.config.capacity >= 3
    /\ KeyOf(pl.entries[1]) = KeyOf(last.e)
    /\ \A i, j \in 1..Len(pl.entries) : i # j => KeyOf(pl.entries[i]) # KeyOf(pl.entries[j])


\* a push of a copy of the stored entry a is taken for the stored entry b
MatchEachOther(p, a, b) ==
    PushScan(p, a, RealPath(a.path), RealCorePath(a.core_path), b) = "match"

\* C38: after any sequence of playlist_push calls on an initially empty
\* playlist, no two stored entries match each other under the push matching
\* rule (equal content path, equal core path and equal subsystem fields): the
\* playlist never holds a duplicate.
C38_NoDuplicate ==
    \A i, j \in 1..Len(pl.entries) :
        i # j => ~MatchEachOther(pl, pl.entries[i], pl.entries[j])

\* a full playlist after a push that found its content stored, among it the
\* two files of one archive
C38_Witness ==
    /\ last.op = "push" /\ last.hit > 0 /\ ~last.fault
    /\ Len(pl.entries) = pl.config.capacity
    /\ pl.config.fuzzy_archive_match
    /\ \E i, j \in 1..Len(pl.entries) :
          /\ i # j
          /\ path_get_archive_delim(pl.entries[i].path.str) # 0
          /\ path_get_archive_delim(pl.entries[j].path.str) # 0


----------------------------------------------------------------------------
(* Properties of the display modes of a loaded playlist *)

ModesInRange(p) ==
    /\ p.label_display_mode \in 0..LABEL_DISPLAY_MODE_KEEP_REGION_AND_DISC_INDEX
    /\ p.right_thumbnail_mode \in 0..PLAYLIST_THUMBNAIL_MODE_BOXARTS
    /\ p.left_thumbnail_mode \in 0..PLAYLIST_THUMBNAIL_MODE_BOXARTS
    /\ p.sort_mode \in 0..PLAYLIST_SORT_MODE_OFF

\* C39: after loading a file in either on-disk format, label_display_mode,
\* right_thumbnail_mode, left_thumbnail_mode and sort_mode each hold a value
\* inside their enumeration's range: an out-of-range number in the file
\* leaves the field at its default.
C39_LoadedModesInRange == last.op = "load" => ModesInRange(pl)


\* the stored entry x has the content path, core path, subsystem identifier
\* and subsystem name of the pushed entry e, and no ROM list
TwinWithoutRoms(p, e, x) ==
    /\ PathAndCoreEqual(p, RealPath(e.path), RealCorePath(e.core_path), x)
    /\ SamePresence(e.subsystem_ident, x.subsystem_ident)
    /\ SamePresence(e.subsystem_name, x.subsystem_name)
    /\ ~x.subsystem_roms.ptr

\* C40: playlist_push never accesses the subsystem ROM list of an existing
\* entry that has none: pushing an entry that carries a subsystem ROM list
\* onto a playlist holding an entry with equal content path, core path,
\* subsystem identifier and subsystem name but no ROM list completes normally
\* and treats that entry as a non-match.
C40_Step ==
    \A i \in 1..Len(pl.entries) :
        (/\ last'.op = "push"
         /\ last'.e.subsystem_roms.ptr
         /\ TwinWithoutRoms(pl, last'.e, pl.entries[i]))
        => ~last'.fault /\ last'.hit # i

C40_PushSkipsEntryWithoutRoms == [][C40_Step]_vars

=============================================================================
